---------------------------- MODULE Spec2Model ----------------------------
(***************************************************************************)
(* A model of the Orca Whirlpool pricing core of SolRoute:                 *)
(*   - the account codec (WhirlpoolPool.Decode / Span / Offset),           *)
(*   - the fixed-point math library (whirlpoolMulDiv*, token amounts,      *)
(*     next-sqrt-price),                                                   *)
(*   - the quote path (WhirlpoolPool.Quote and the swap computation),      *)
(*   - the swap instruction builder (BuildSwapInstructions).               *)
(*                                                                         *)
(* The Go code computes on math/big and cosmossdk.io/math integers of up   *)
(* to 256 bits.  TLC's integers have 32 bits, so the model carries its own *)
(* arbitrary-precision integers: a natural number is the little-endian     *)
(* sequence of its digits in base 2^15 (the N... operators), an integer is *)
(* a sign and a magnitude (the Z... operators).                            *)
(***************************************************************************)
EXTENDS Integers, Sequences, FiniteSets, TLC

VARIABLES
    pool,   \* the WhirlpoolPool struct the operations work on
    args,   \* the inputs of the operation (drawn at Init or by the action)
    call,   \* the name of the operation that ran last ("none" at Init)
    ret     \* what that operation returned

vars == <<pool, args, call, ret>>

-----------------------------------------------------------------------------
(* Natural numbers of arbitrary size: math/big's nat.                      *)

Base == 2^15

\* F applied to the value of v: an operand is evaluated once, when the
\* statement runs, and the statements after it use the value
With(v, F(_)) == CASE v = v -> F(v)

SetMax(S) == CHOOSE i \in S : \A j \in S : j <= i

\* s without its leading zero digits
NNorm(s) ==
    LET nz == {i \in 1..Len(s) : s[i] # 0}
    IN  IF nz = {} THEN <<>> ELSE SubSeq(s, 1, SetMax(nz))

RECURSIVE NFromNat(_)
NFromNat(n) == IF n = 0 THEN <<>> ELSE <<n % Base>> \o NFromNat(n \div Base)

Dig(s, i) == IF i <= Len(s) THEN s[i] ELSE 0

\* An operand is evaluated where it is first used.  Evaluated(s) is true of
\* every digit sequence: a test of it in front of a computation makes the
\* operand's evaluation a step of its own, in front of the computation.
Evaluated(s) == Len(s) >= 0

\* a * Base^k
NShift(a, k) ==
    IF a = <<>> THEN <<>> ELSE [i \in 1..(Len(a) + k) |-> IF i <= k THEN 0 ELSE a[i - k]]

\* Digit i of the sum receives a carry when some digit sum below it
\* overflows and every digit sum in between is Base - 1.
NAdd(a, b) ==
    LET n == IF Len(a) > Len(b) THEN Len(a) ELSE Len(b)
        T(i) == Dig(a, i) + Dig(b, i)
        G == {j \in 1..n : T(j) >= Base}
        Carry(i) == \E j \in G : j < i /\ \A k \in (j + 1)..(i - 1) : T(k) = Base - 1
    IN  NNorm([i \in 1..(n + 1) |-> (T(i) + (IF Carry(i) THEN 1 ELSE 0)) % Base])

\* a - b, for a >= b; the borrows travel as the carries of NAdd do
NSub(a, b) ==
    LET T(i) == a[i] - Dig(b, i)
        G == {j \in 1..Len(a) : T(j) < 0}
        Borrow(i) == \E j \in G : j < i /\ \A k \in (j + 1)..(i - 1) : T(k) = 0
    IN  NNorm([i \in 1..Len(a) |-> (T(i) - (IF Borrow(i) THEN 1 ELSE 0)) % Base])

NCmp(a, b) ==
    IF Len(a) > Len(b) THEN 1
    ELSE IF Len(a) < Len(b) THEN -1
    ELSE LET D == {i \in 1..Len(a) : a[i] # b[i]}
         IN  IF D = {} THEN 0
             ELSE IF a[SetMax(D)] > b[SetMax(D)] THEN 1 ELSE -1

\* a * d, for a digit d: the low and the high halves of the digit products
NMulSmall(a, d) ==
    With(NNorm([i \in 1..Len(a) |-> (a[i] * d) % Base]), LAMBDA low :
    With(NShift(NNorm([i \in 1..Len(a) |-> (a[i] * d) \div Base]), 1), LAMBDA high :
        NAdd(low, high)))

\* the sum of the partial products of a by the digits lo..hi of b
RECURSIVE NMulRange(_, _, _, _)
NMulRange(a, b, lo, hi) ==
    IF lo = hi THEN NShift(NMulSmall(a, b[lo]), lo - 1)
    ELSE With(NMulRange(a, b, lo, (lo + hi) \div 2), LAMBDA low :
         With(NMulRange(a, b, (lo + hi) \div 2 + 1, hi), LAMBDA high :
             NAdd(low, high)))

NMul(a, b) ==
    IF a = <<>> \/ b = <<>> THEN <<>>
    ELSE IF Len(a) >= Len(b) THEN NMulRange(a, b, 1, Len(b))
    ELSE NMulRange(b, a, 1, Len(a))

\* Base^k mod d
RECURSIVE PowMod(_, _)
PowMod(k, d) ==
    IF k = 0 THEN 1 % d
    ELSE LET h == PowMod(k \div 2, d)
         IN  (((h * h) % d) * (IF k % 2 = 1 THEN Base % d ELSE 1)) % d

\* the number made of the digits lo..hi of a, mod d
RECURSIVE SegMod(_, _, _, _)
SegMod(a, d, lo, hi) ==
    IF lo > hi THEN 0
    ELSE IF lo = hi THEN a[lo] % d
    ELSE LET mid == (lo + hi) \div 2
         IN  (SegMod(a, d, mid + 1, hi) * PowMod(mid - lo + 1, d)
                + SegMod(a, d, lo, mid)) % d

\* quotient and remainder of a by a digit d > 0: quotient digit i is the
\* remainder left by the digits above i, followed by digit i, divided by d
NDivSmall(a, d) ==
    [q |-> NNorm([i \in 1..Len(a) |->
                     (SegMod(a, d, i + 1, Len(a)) * Base + a[i]) \div d]),
     r |-> NFromNat(SegMod(a, d, 1, Len(a)))]

RECURSIVE NFixDigit(_, _, _)
NFixDigit(bn, rem, est) ==
    With(NMulSmall(bn, est), LAMBDA prod :
        IF NCmp(prod, rem) > 0
        THEN NFixDigit(bn, rem, est - 1) ELSE est)

\* the next quotient digit of rem by bn (bn's top digit is at least Base/2)
NEstDigit(bn, rem) ==
    LET n == Len(bn)
    IN  IF Len(rem) < n THEN 0
        ELSE LET t == Dig(rem, n + 1) * Base + rem[n]
                 e == t \div bn[n]
             IN  NFixDigit(bn, rem, IF e > Base - 1 THEN Base - 1 ELSE e)

\* one step of the long division: the next quotient digit of r1 by bn joins
\* q, and what it leaves of r1 is the remainder
NLongDivStep(bn, r1, q) ==
    With(NEstDigit(bn, r1), LAMBDA qd :
    With(NMulSmall(bn, qd), LAMBDA prod :
        [q |-> <<qd>> \o q, r |-> NSub(r1, prod)]))

\* the long division from digit i of an down; done holds the quotient
\* digits of the digits above i and their remainder
RECURSIVE NLongDivAt(_, _, _, _)
NLongDivAt(an, bn, i, done) ==
    IF Evaluated(done.q) /\ i = 0 THEN [q |-> NNorm(done.q), r |-> done.r]
    ELSE NLongDivAt(an, bn, i - 1,
                    NLongDivStep(bn, NNorm(<<an[i]>> \o done.r), done.q))

\* quotient and remainder of an by bn, whose top digit is at least Base/2
NLongDivNormalized(an, bn) ==
    LET i0 == Len(an) - Len(bn) + 1
    IN  NLongDivAt(an, bn, i0,
                   [q |-> <<>>, r |-> NNorm(SubSeq(an, i0 + 1, Len(an)))])

\* quotient and remainder of a by b > 0 (schoolbook long division; the top
\* Len(b) - 1 digits of a are below b and start the remainder)
NDivMod(a, b) ==
    IF NCmp(a, b) < 0 THEN [q |-> <<>>, r |-> a]
    ELSE IF Len(b) = 1 THEN NDivSmall(a, b[1])
    ELSE LET d == Base \div (b[Len(b)] + 1)
         IN  With(NLongDivNormalized(NMulSmall(a, d), NMulSmall(b, d)), LAMBDA qr :
                 [q |-> qr.q, r |-> NDivSmall(qr.r, d).q])

NPow2(k) == [i \in 1..(k \div 15 + 1) |-> IF i = k \div 15 + 1 THEN 2^(k % 15) ELSE 0]

\* a number written as its decimal digits, most significant first
RECURSIVE NFromDec(_)
NFromDec(ds) ==
    IF Len(ds) <= 4
    THEN LET DecAt(i) == IF i >= 1 THEN ds[i] ELSE 0
         IN  NFromNat(DecAt(Len(ds)) + 10 * DecAt(Len(ds) - 1)
                        + 100 * DecAt(Len(ds) - 2) + 1000 * DecAt(Len(ds) - 3))
    ELSE With(NFromDec(SubSeq(ds, 1, Len(ds) - 4)), LAMBDA high :
         With(NFromDec(SubSeq(ds, Len(ds) - 3, Len(ds))), LAMBDA low :
             NAdd(NMulSmall(high, 10000), low)))

\* A number written as its bytes, least significant first.  Digit d holds
\* bits 15(d-1) .. 15(d-1)+14, which lie in at most three adjacent bytes.
NFromBytesLE(bs) ==
    LET ByteAt(k) == IF k < Len(bs) THEN bs[k + 1] ELSE 0
        DigitAt(d) ==
            LET bit == 15 * (d - 1)
                k   == bit \div 8
                v   == ByteAt(k) + 256 * ByteAt(k + 1) + 65536 * ByteAt(k + 2)
            IN  (v \div 2^(bit % 8)) % Base
    IN  NNorm([d \in 1..((8 * Len(bs)) \div 15 + 1) |-> DigitAt(d)])

-----------------------------------------------------------------------------
(* Integers of arbitrary size: math/big's Int, cosmossdk.io/math's Int.    *)

ZMake(neg, mag) == [neg |-> neg /\ mag # <<>>, mag |-> mag]

ZNat(n) == IF n < 0 THEN ZMake(TRUE, NFromNat(-n)) ELSE ZMake(FALSE, NFromNat(n))

ZDec(ds) == ZMake(FALSE, NFromDec(ds))

ZeroInt == ZNat(0)

OneInt == ZNat(1)

\* The zero test that never fires.
ZIsZeroNever(x) == x.mag # x.mag

ZIsZero(x) == x.mag = <<>>

ZIsNegative(x) == x.neg

ZIsPositive(x) == ~x.neg /\ x.mag # <<>>

ZNeg(x) == ZMake(~x.neg, x.mag)

ZAbs(x) == ZMake(FALSE, x.mag)

ZCmp(x, y) ==
    IF x.neg # y.neg THEN (IF x.neg THEN -1 ELSE 1)
    ELSE IF x.neg THEN NCmp(y.mag, x.mag) ELSE NCmp(x.mag, y.mag)

ZAdd(x, y) ==
    IF x.neg = y.neg THEN ZMake(x.neg, NAdd(x.mag, y.mag))
    ELSE IF NCmp(x.mag, y.mag) >= 0 THEN ZMake(x.neg, NSub(x.mag, y.mag))
    ELSE ZMake(y.neg, NSub(y.mag, x.mag))

ZSub(x, y) == ZAdd(x, ZNeg(y))

ZMul(x, y) == ZMake(x.neg # y.neg, NMul(x.mag, y.mag))

\* big.Int.Quo: the quotient truncated toward zero, for y # 0
ZQuo(x, y) == ZMake(x.neg # y.neg, NDivMod(x.mag, y.mag).q)

\* big.Int.Div and big.Int.Mod: Euclidean division, for y # 0
ZMod(x, y) ==
    With(NDivMod(x.mag, y.mag).r, LAMBDA r :
        IF x.neg /\ r # <<>> THEN ZMake(FALSE, NSub(y.mag, r)) ELSE ZMake(FALSE, r))

ZDiv(x, y) ==
    With(NDivMod(x.mag, y.mag), LAMBDA qr :
        IF x.neg /\ qr.r # <<>>
        THEN ZMake(~y.neg, NAdd(qr.q, <<1>>))
        ELSE ZMake(x.neg # y.neg, qr.q))

\* big.Int.Lsh
ZLsh(x, k) == ZMake(x.neg, NMul(x.mag, NPow2(k)))

-----------------------------------------------------------------------------
(* Outcomes.  A Go function returns a value, returns an error, or panics.  *)
(* cosmath.Int{} is the Int without a value (its big.Int pointer is nil):  *)
(* it is not the integer zero, and every arithmetic method panics on it.   *)

NilInt == [nil |-> TRUE]

IsNilInt(x) == "nil" \in DOMAIN x

Panic(msg) == [panic |-> msg]

IsPanic(x) == "panic" \in DOMAIN x

Outcome(x) ==
    IF IsPanic(x) THEN [kind |-> "panic", msg |-> x.panic]
                  ELSE [kind |-> "return", val |-> x]

NoRet == [kind |-> "none"]

-----------------------------------------------------------------------------
(* constants.go                                                            *)

TICK_ARRAY_SIZE == 88

U64Resolution == 64

FEE_RATE_DENOMINATOR == 1000000

MIN_SQRT_PRICE_X64 == ZDec(<<4, 2, 9, 5, 0, 4, 8, 0, 1, 6>>)

MAX_SQRT_PRICE_X64 ==
    ZDec(<<7, 9, 2, 2, 6, 6, 7, 3, 5, 2, 1, 0, 6, 6, 9, 7, 9, 2, 5, 7,
           5, 7, 8, 2, 4, 8, 0, 9, 1>>)

WHIRLPOOL_SIZE == 653

-----------------------------------------------------------------------------
(* The fixed-point math library.                                           *)

\* The floor-rounding mulDiv with the rounding direction inverted.
whirlpoolMulDivFloorUp(a, b, denominator) ==
    IF ZIsZero(denominator) THEN Panic("division by zero")
    ELSE ZQuo(ZAdd(ZMul(a, b), ZSub(denominator, OneInt)), denominator)

whirlpoolMulDivFloor(a, b, denominator) ==
    IF ZIsZero(denominator) THEN Panic("division by zero")
    ELSE LET numerator == ZMul(a, b)
         IN  ZQuo(numerator, denominator)

whirlpoolMulDivCeil(a, b, denominator) ==
    IF ZIsZero(denominator) THEN NilInt
    ELSE LET numerator == ZAdd(ZMul(a, b), ZSub(denominator, OneInt))
         IN  ZQuo(numerator, denominator)

\* Token A with the first of the two round-up divisions rounding down.
whirlpoolGetTokenAmountAFromLiquidityFloorFirst(sqrtPriceX64A, sqrtPriceX64B, liquidity, roundUp) ==
    LET swap   == ZCmp(sqrtPriceX64A, sqrtPriceX64B) > 0
        priceA == IF swap THEN sqrtPriceX64B ELSE sqrtPriceX64A
        priceB == IF swap THEN sqrtPriceX64A ELSE sqrtPriceX64B
        numerator1 == ZLsh(liquidity, U64Resolution)
        numerator2 == ZSub(priceB, priceA)
    IN  IF ZCmp(priceA, ZeroInt) <= 0
        THEN Panic("sqrtPriceX64A must be greater than 0")
        ELSE IF roundUp
        THEN whirlpoolMulDivCeil(
                 whirlpoolMulDivFloor(numerator1, numerator2, priceB), OneInt, priceA)
        ELSE ZQuo(whirlpoolMulDivFloor(numerator1, numerator2, priceB), priceA)

whirlpoolGetTokenAmountAFromLiquidity(sqrtPriceX64A, sqrtPriceX64B, liquidity, roundUp) ==
    LET swap   == ZCmp(sqrtPriceX64A, sqrtPriceX64B) > 0
        priceA == IF swap THEN sqrtPriceX64B ELSE sqrtPriceX64A
        priceB == IF swap THEN sqrtPriceX64A ELSE sqrtPriceX64B
        numerator1 == ZLsh(liquidity, U64Resolution)
        numerator2 == ZSub(priceB, priceA)
    IN  IF ZCmp(priceA, ZeroInt) <= 0
        THEN Panic("sqrtPriceX64A must be greater than 0")
        ELSE IF roundUp
        THEN whirlpoolMulDivCeil(
                 whirlpoolMulDivCeil(numerator1, numerator2, priceB), OneInt, priceA)
        ELSE ZQuo(whirlpoolMulDivFloor(numerator1, numerator2, priceB), priceA)

\* Token B with the roundUp flag ignored.
whirlpoolGetTokenAmountBFromLiquidityNoRoundUp(sqrtPriceX64A, sqrtPriceX64B, liquidity, roundUp) ==
    LET swap   == ZCmp(sqrtPriceX64A, sqrtPriceX64B) > 0
        priceA == IF swap THEN sqrtPriceX64B ELSE sqrtPriceX64A
        priceB == IF swap THEN sqrtPriceX64A ELSE sqrtPriceX64B
        priceDiff   == ZSub(priceB, priceA)
        denominator == ZLsh(OneInt, U64Resolution)
    IN  IF ZCmp(priceA, ZeroInt) <= 0
        THEN Panic("sqrtPriceX64A must be greater than 0")
        ELSE whirlpoolMulDivFloor(liquidity, priceDiff, denominator)

whirlpoolGetTokenAmountBFromLiquidity(sqrtPriceX64A, sqrtPriceX64B, liquidity, roundUp) ==
    LET swap   == ZCmp(sqrtPriceX64A, sqrtPriceX64B) > 0
        priceA == IF swap THEN sqrtPriceX64B ELSE sqrtPriceX64A
        priceB == IF swap THEN sqrtPriceX64A ELSE sqrtPriceX64B
        priceDiff   == ZSub(priceB, priceA)
        denominator == ZLsh(OneInt, U64Resolution)
    IN  IF ZCmp(priceA, ZeroInt) <= 0
        THEN Panic("sqrtPriceX64A must be greater than 0")
        ELSE IF roundUp
        THEN whirlpoolMulDivCeil(liquidity, priceDiff, denominator)
        ELSE whirlpoolMulDivFloor(liquidity, priceDiff, denominator)

whirlpoolMulDivRoundingUp(a, b, denominator) ==
    With(ZMul(a, b), LAMBDA numerator :
    With(ZDiv(numerator, denominator), LAMBDA result :
        IF ZCmp(ZMod(numerator, denominator), ZeroInt) # 0
        THEN ZAdd(result, OneInt) ELSE result))

whirlpoolGetNextSqrtPriceFromTokenAmountARoundingUp(sqrtPriceX64, liquidity, amount, add) ==
    IF ZCmp(amount, ZeroInt) = 0 THEN sqrtPriceX64
    ELSE With(ZLsh(liquidity, U64Resolution), LAMBDA liquidityLeftShift :
             IF add
             THEN LET numerator1 == liquidityLeftShift
                  IN  With(ZAdd(liquidityLeftShift, ZMul(amount, sqrtPriceX64)),
                           LAMBDA denominator :
                      IF ZCmp(denominator, numerator1) >= 0
                      THEN whirlpoolMulDivCeil(numerator1, sqrtPriceX64, denominator)
                      ELSE LET temp == ZAdd(ZDiv(numerator1, sqrtPriceX64), amount)
                           IN  whirlpoolMulDivRoundingUp(numerator1, OneInt, temp))
             ELSE With(ZMul(amount, sqrtPriceX64), LAMBDA amountMulSqrtPrice :
                      IF ZCmp(liquidityLeftShift, amountMulSqrtPrice) <= 0
                      THEN Panic("liquidity must be greater than amount * sqrtPrice")
                      ELSE whirlpoolMulDivCeil(liquidityLeftShift, sqrtPriceX64,
                               ZSub(liquidityLeftShift, amountMulSqrtPrice))))

\* Token B with the price moved by the quotient rounded up.
whirlpoolGetNextSqrtPriceFromTokenAmountBRoundingUp(sqrtPriceX64, liquidity, amount, add) ==
    LET deltaY == ZLsh(amount, U64Resolution)
    IN  IF add
        THEN ZAdd(sqrtPriceX64, whirlpoolMulDivRoundingUp(deltaY, OneInt, liquidity))
        ELSE With(whirlpoolMulDivRoundingUp(deltaY, OneInt, liquidity),
                  LAMBDA amountDivLiquidity :
                 IF ZCmp(sqrtPriceX64, amountDivLiquidity) <= 0
                 THEN Panic("sqrtPriceX64 must be greater than amountDivLiquidity")
                 ELSE ZSub(sqrtPriceX64, amountDivLiquidity))

whirlpoolGetNextSqrtPriceFromTokenAmountBRoundingDown(sqrtPriceX64, liquidity, amount, add) ==
    LET deltaY == ZLsh(amount, U64Resolution)
    IN  IF add
        THEN ZAdd(sqrtPriceX64, ZDiv(deltaY, liquidity))
        ELSE With(whirlpoolMulDivRoundingUp(deltaY, OneInt, liquidity),
                  LAMBDA amountDivLiquidity :
                 IF ZCmp(sqrtPriceX64, amountDivLiquidity) <= 0
                 THEN Panic("sqrtPriceX64 must be greater than amountDivLiquidity")
                 ELSE ZSub(sqrtPriceX64, amountDivLiquidity))

\* The next price for twice the amount: the step overshoots its target.
whirlpoolGetNextSqrtPriceX64FromInputTwice(sqrtPriceX64Current, liquidity, amount, zeroForOne) ==
    IF ZCmp(sqrtPriceX64Current, ZeroInt) <= 0
    THEN Panic("sqrtPriceX64Current must be greater than 0")
    ELSE IF ZCmp(liquidity, ZeroInt) <= 0
    THEN Panic("liquidity must be greater than 0")
    ELSE IF ZCmp(amount, ZeroInt) = 0 THEN sqrtPriceX64Current
    ELSE IF zeroForOne
    THEN whirlpoolGetNextSqrtPriceFromTokenAmountARoundingUp(
             sqrtPriceX64Current, liquidity, ZAdd(amount, amount), TRUE)
    ELSE whirlpoolGetNextSqrtPriceFromTokenAmountBRoundingDown(
             sqrtPriceX64Current, liquidity, ZAdd(amount, amount), TRUE)

whirlpoolGetNextSqrtPriceX64FromInput(sqrtPriceX64Current, liquidity, amount, zeroForOne) ==
    IF ZCmp(sqrtPriceX64Current, ZeroInt) <= 0
    THEN Panic("sqrtPriceX64Current must be greater than 0")
    ELSE IF ZCmp(liquidity, ZeroInt) <= 0
    THEN Panic("liquidity must be greater than 0")
    ELSE IF ZCmp(amount, ZeroInt) = 0 THEN sqrtPriceX64Current
    ELSE IF zeroForOne
    THEN whirlpoolGetNextSqrtPriceFromTokenAmountARoundingUp(
             sqrtPriceX64Current, liquidity, amount, TRUE)
    ELSE whirlpoolGetNextSqrtPriceFromTokenAmountBRoundingDown(
             sqrtPriceX64Current, liquidity, amount, TRUE)

whirlpoolGetNextSqrtPriceX64FromOutput(sqrtPriceX64Current, liquidity, amount, zeroForOne) ==
    IF ZCmp(sqrtPriceX64Current, ZeroInt) <= 0
    THEN Panic("sqrtPriceX64Current must be greater than 0")
    ELSE IF ZCmp(liquidity, ZeroInt) <= 0
    THEN Panic("liquidity must be greater than 0")
    ELSE IF zeroForOne
    THEN whirlpoolGetNextSqrtPriceFromTokenAmountBRoundingDown(
             sqrtPriceX64Current, liquidity, amount, FALSE)
    ELSE whirlpoolGetNextSqrtPriceFromTokenAmountARoundingUp(
             sqrtPriceX64Current, liquidity, amount, FALSE)

-----------------------------------------------------------------------------
(* The WhirlpoolPool struct.  A public key is its 32 bytes; an unsigned    *)
(* 64- or 128-bit field is an integer; a Go zero value is all zeroes.      *)

ZeroKey == [i \in 1..32 |-> 0]

WhirlpoolRewardInfo ==
    [Mint |-> ZeroKey, Vault |-> ZeroKey, Authority |-> ZeroKey,
     EmissionsPerSecondX64 |-> ZeroInt, GrowthGlobalX64 |-> ZeroInt]

WhirlpoolPool ==
    [WhirlpoolsConfig |-> ZeroKey,
     WhirlpoolBump    |-> <<0>>,
     TickSpacing      |-> 0,
     FeeTierIndexSeed |-> <<0, 0>>,
     FeeRate          |-> 0,
     ProtocolFeeRate  |-> 0,
     Liquidity        |-> ZeroInt,
     SqrtPrice        |-> ZeroInt,
     TickCurrentIndex |-> 0,
     ProtocolFeeOwedA |-> ZeroInt,
     ProtocolFeeOwedB |-> ZeroInt,
     TokenMintA       |-> ZeroKey,
     TokenVaultA      |-> ZeroKey,
     FeeGrowthGlobalA |-> ZeroInt,
     TokenMintB       |-> ZeroKey,
     TokenVaultB      |-> ZeroKey,
     FeeGrowthGlobalB |-> ZeroInt,
     RewardLastUpdatedTimestamp |-> ZeroInt,
     RewardInfos      |-> <<WhirlpoolRewardInfo, WhirlpoolRewardInfo, WhirlpoolRewardInfo>>,
     PoolId           |-> ZeroKey,
     UserBaseAccount  |-> ZeroKey,
     UserQuoteAccount |-> ZeroKey]

-----------------------------------------------------------------------------
(* The account codec.  Decode is straight-line code: one slice expression  *)
(* data[offset : offset+width] and one conversion per field, in the order  *)
(* of Layout.  Go evaluates a slice expression against the capacity of the *)
(* slice, not its length, and panics when the upper index exceeds it.      *)

Field(name, width, kind) ==
    [name |-> name, idx |-> 0, sub |-> "", width |-> width, kind |-> kind]

RewardField(i, sub, width, kind) ==
    [name |-> "RewardInfos", idx |-> i, sub |-> sub, width |-> width, kind |-> kind]

RewardLayout(i) ==
    << RewardField(i, "Mint", 32, "PublicKey"),
       RewardField(i, "Vault", 32, "PublicKey"),
       RewardField(i, "Authority", 32, "PublicKey"),
       RewardField(i, "EmissionsPerSecondX64", 16, "Uint128"),
       RewardField(i, "GrowthGlobalX64", 16, "Uint128") >>

\* The layout without the fee-tier index seed.
LayoutNoFeeTierSeed ==
    << Field("WhirlpoolsConfig", 32, "PublicKey"),
       Field("WhirlpoolBump", 1, "bytes"),
       Field("TickSpacing", 2, "uint16"),
       Field("FeeRate", 2, "uint16"),
       Field("ProtocolFeeRate", 2, "uint16"),
       Field("Liquidity", 16, "Uint128"),
       Field("SqrtPrice", 16, "Uint128"),
       Field("TickCurrentIndex", 4, "int32"),
       Field("ProtocolFeeOwedA", 8, "uint64"),
       Field("ProtocolFeeOwedB", 8, "uint64"),
       Field("TokenMintA", 32, "PublicKey"),
       Field("TokenVaultA", 32, "PublicKey"),
       Field("FeeGrowthGlobalA", 16, "Uint128"),
       Field("TokenMintB", 32, "PublicKey"),
       Field("TokenVaultB", 32, "PublicKey"),
       Field("FeeGrowthGlobalB", 16, "Uint128"),
       Field("RewardLastUpdatedTimestamp", 8, "uint64") >>
    \o RewardLayout(1) \o RewardLayout(2) \o RewardLayout(3)

Layout ==
    << Field("WhirlpoolsConfig", 32, "PublicKey"),
       Field("WhirlpoolBump", 1, "bytes"),
       Field("TickSpacing", 2, "uint16"),
       Field("FeeTierIndexSeed", 2, "bytes"),
       Field("FeeRate", 2, "uint16"),
       Field("ProtocolFeeRate", 2, "uint16"),
       Field("Liquidity", 16, "Uint128"),
       Field("SqrtPrice", 16, "Uint128"),
       Field("TickCurrentIndex", 4, "int32"),
       Field("ProtocolFeeOwedA", 8, "uint64"),
       Field("ProtocolFeeOwedB", 8, "uint64"),
       Field("TokenMintA", 32, "PublicKey"),
       Field("TokenVaultA", 32, "PublicKey"),
       Field("FeeGrowthGlobalA", 16, "Uint128"),
       Field("TokenMintB", 32, "PublicKey"),
       Field("TokenVaultB", 32, "PublicKey"),
       Field("FeeGrowthGlobalB", 16, "Uint128"),
       Field("RewardLastUpdatedTimestamp", 8, "uint64") >>
    \o RewardLayout(1) \o RewardLayout(2) \o RewardLayout(3)

\* binary.LittleEndian.Uint32 followed by the conversion to int32
Int32LE(bs) ==
    LET low == bs[1] + 256 * bs[2] + 65536 * bs[3]
    IN  IF bs[4] >= 128 THEN (bs[4] - 256) * 16777216 + low
                        ELSE bs[4] * 16777216 + low

\* the value a field of the given kind takes from its bytes
FromBytes(kind, bs) ==
    CASE kind = "PublicKey" -> bs
      [] kind = "bytes"     -> bs
      [] kind = "uint16"    -> bs[1] + 256 * bs[2]
      [] kind = "int32"     -> Int32LE(bs)
      [] kind = "uint64"    -> ZMake(FALSE, NFromBytesLE(bs))
      [] kind = "Uint128"   -> ZMake(FALSE, NFromBytesLE(bs))

\* A slice: the bytes up to its length, and its capacity.  The part of the
\* backing array past the length was zeroed when the array was allocated.
ByteOf(buf, i) == IF i < Len(buf.data) THEN buf.data[i + 1] ELSE 0

\* buf[from : from+width], for from + width <= cap(buf)
SliceBytes(buf, from, width) == [j \in 1..width |-> ByteOf(buf, from + j - 1)]

\* The slice expressions Decode evaluates from field k on, in order: the
\* field, and the absolute position of its first byte (base is the number
\* of bytes stripped in front, offset the position in the stripped slice).
\* The list stops in front of the first slice expression that panics.
RECURSIVE ReadsFrom(_, _, _, _)
ReadsFrom(buf, base, k, offset) ==
    IF k > Len(Layout) THEN <<>>
    ELSE IF base + offset + Layout[k].width > buf.cap THEN <<>>
    ELSE <<[k |-> k, at |-> base + offset]>>
             \o ReadsFrom(buf, base, k + 1, offset + Layout[k].width)

\* the struct p after the assignments of the given reads
Populate(p, buf, reads) ==
    LET Read(name, idx, sub) ==
            {r \in {reads[n] : n \in 1..Len(reads)} :
                 /\ Layout[r.k].name = name
                 /\ Layout[r.k].idx = idx
                 /\ Layout[r.k].sub = sub}
        Value(name, idx, sub, old) ==
            IF Read(name, idx, sub) = {} THEN old
            ELSE LET r == CHOOSE x \in Read(name, idx, sub) : TRUE
                 IN  FromBytes(Layout[r.k].kind,
                               SliceBytes(buf, r.at, Layout[r.k].width))
    IN  [name \in DOMAIN p |->
            IF name = "RewardInfos"
            THEN [i \in 1..3 |->
                     [sub \in DOMAIN p.RewardInfos[i] |->
                         Value(name, i, sub, p.RewardInfos[i][sub])]]
            ELSE Value(name, 0, "", p[name])]

\* WhirlpoolPool.Decode on the struct p: it returns nil after the last
\* field, or panics at the first slice expression past the capacity with
\* the fields in front of it assigned.
Decode(p, buf) ==
    LET base  == IF Len(buf.data) > 8 THEN 8 ELSE 0
        reads == ReadsFrom(buf, base, 1, 0)
        trace == [n \in 1..Len(reads) |->
                     [name |-> Layout[reads[n].k].name,
                      idx |-> Layout[reads[n].k].idx,
                      sub |-> Layout[reads[n].k].sub,
                      at |-> reads[n].at,
                      width |-> Layout[reads[n].k].width]]
    IN  IF Len(reads) = Len(Layout)
        THEN [kind |-> "return", err |-> "nil",
              pool |-> Populate(p, buf, reads), reads |-> trace]
        ELSE [kind |-> "panic", msg |-> "slice bounds out of range",
              pool |-> Populate(p, buf, reads), reads |-> trace]

Span ==
    8 + 32 + 1 + 2 + 2 + 2 + 2 + 16 + 16 + 4 + 8 + 8 + 32 + 32 + 16 + 32 + 32
      + 16 + 8 + 3 * 128

\* Offset with the 8-byte correction of TokenMintB left out.
OffsetUncorrected(field) ==
    LET baseOffset == 8
    IN  CASE field = "TokenMintA" ->
                 baseOffset + 32 + 1 + 2 + 2 + 2 + 2 + 16 + 16 + 4 + 8 + 8
          [] field = "TokenMintB" -> baseOffset + 101 + 32 + 32 + 16
          [] field = "TickSpacing" -> baseOffset + 32 + 1
          [] field = "FeeRate" -> baseOffset + 32 + 1 + 2 + 2
          [] field = "SqrtPrice" -> baseOffset + 32 + 1 + 2 + 2 + 2 + 2 + 16
          [] field = "TickCurrentIndex" ->
                 baseOffset + 32 + 1 + 2 + 2 + 2 + 2 + 16 + 16
          [] OTHER -> 0

Offset(field) ==
    LET baseOffset == 8
    IN  CASE field = "TokenMintA" ->
                 baseOffset + 32 + 1 + 2 + 2 + 2 + 2 + 16 + 16 + 4 + 8 + 8
          [] field = "TokenMintB" -> baseOffset + 101 + 32 + 32 + 16 - 8
          [] field = "TickSpacing" -> baseOffset + 32 + 1
          [] field = "FeeRate" -> baseOffset + 32 + 1 + 2 + 2
          [] field = "SqrtPrice" -> baseOffset + 32 + 1 + 2 + 2 + 2 + 2 + 16
          [] field = "TickCurrentIndex" ->
                 baseOffset + 32 + 1 + 2 + 2 + 2 + 2 + 16 + 16
          [] OTHER -> 0

-----------------------------------------------------------------------------
(* Errors and strings.  A Go error is modelled by the texts of its wrap    *)
(* chain, outermost first (formatted arguments left out); nil is the empty *)
(* chain.  The base58 text of a public key k is String(k); a string that   *)
(* is not the base58 text of any 32-byte key is an InvalidString.          *)

Nil == <<>>

Errorf(text, err) == <<text>> \o err

String(k) == [base58 |-> k]

InvalidString == [invalid |-> "not a base58 public key"]

IsBase58Key(str) == "base58" \in DOMAIN str

\* the phrases the error classifiers look for that occur in a text
PhrasesIn(text) ==
    CASE text = "429 too many requests" -> {"429", "too many requests"}
      [] text = "account not found" -> {"account not found"}
      [] text = "connection refused" -> {}
      [] text = "liquidity is zero" -> {}
      [] text = "calculated amount is zero" -> {}
      [] text = "arithmetic overflow" -> {"overflow"}
      [] text = "arithmetic underflow" -> {"underflow"}
      [] text = "division by zero" -> {"division by zero"}
      [] text = "request timeout" -> {"timeout"}
      [] OTHER -> {}

ErrorContains(err, phrase) == \E i \in 1..Len(err) : phrase \in PhrasesIn(err[i])

-----------------------------------------------------------------------------
(* The quote path.                                                         *)

\* validateQuoteInputs without the zero-amount check.
validateQuoteInputsNoZeroCheck(inputMint, inputAmount) ==
    LET maxAmount == ZMul(ZNat(10^9), ZNat(10^9))
    IN  IF ZIsNegative(inputAmount) THEN <<"input amount cannot be negative">>
        ELSE IF ZCmp(inputAmount, maxAmount) > 0 THEN <<"input amount too large">>
        ELSE IF ~IsBase58Key(inputMint) THEN <<"invalid mint address format">>
        ELSE Nil

validateQuoteInputs(inputMint, inputAmount) ==
    LET maxAmount == ZMul(ZNat(10^9), ZNat(10^9))
    IN  IF ZIsZero(inputAmount) THEN <<"input amount cannot be zero">>
        ELSE IF ZIsNegative(inputAmount) THEN <<"input amount cannot be negative">>
        ELSE IF ZCmp(inputAmount, maxAmount) > 0 THEN <<"input amount too large">>
        ELSE IF ~IsBase58Key(inputMint) THEN <<"invalid mint address format">>
        ELSE Nil

validatePoolState(p) ==
    IF ZIsZero(p.Liquidity) THEN <<"pool has zero liquidity">>
    ELSE IF ZIsZero(p.SqrtPrice) THEN <<"pool has zero sqrt price">>
    ELSE IF p.TickSpacing = 0 THEN <<"pool has zero tick spacing">>
    ELSE IF p.TokenMintA = ZeroKey \/ p.TokenMintB = ZeroKey
    THEN <<"pool has invalid token mint addresses">>
    ELSE Nil

validateQuoteOutput(outputAmount) ==
    IF ZIsZero(outputAmount) THEN <<"computed output amount is zero">>
    ELSE IF ZIsZero(ZAbs(outputAmount))
    THEN <<"computed output amount absolute value is zero">>
    ELSE Nil

isTemporaryError(err) ==
    \/ ErrorContains(err, "overflow")
    \/ ErrorContains(err, "underflow")
    \/ ErrorContains(err, "division by zero")
    \/ ErrorContains(err, "timeout")

getWhirlpoolTickCount(tickSpacing) == tickSpacing * TICK_ARRAY_SIZE

\* math.Floor of the float64 quotient: the operands are below 2^31 and 2^23,
\* so the quotient is computed far more precisely than 1/ticksInArray and
\* its floor is the floor of the exact quotient.  For tickSpacing > 0.
getWhirlpoolTickArrayStartIndexByTick(tickIndex, tickSpacing) ==
    LET ticksInArray == getWhirlpoolTickCount(tickSpacing)
        start        == tickIndex \div ticksInArray
    IN  start * ticksInArray

\* One swap step.  It returns the four amounts, or the panic of the first
\* call in it that panics.
whirlpoolSwapStepComputePrecise(sqrtPriceX64Current, sqrtPriceX64Target, liquidity, amountRemaining, feeRate, zeroForOne) ==
    LET baseInput  == ZCmp(amountRemaining, ZeroInt) >= 0
        feeDenom   == ZNat(FEE_RATE_DENOMINATOR)
        feeRateBig == ZNat(feeRate)
        amountRemainingSubtractFee ==
            whirlpoolMulDivFloor(amountRemaining, ZSub(feeDenom, feeRateBig), feeDenom)
        amountRemainingNeg == ZMul(amountRemaining, ZNat(0 - 1))
        \* the safety margin: 90% of the computed output, at least 1
        adjusted(amountOut, scaled) ==
            IF ZIsZero(scaled) /\ ZCmp(amountOut, ZeroInt) > 0 THEN ZNat(1) ELSE scaled
    IN
    \* step 1: the most the step can take in (give out) up to the target
    With(IF baseInput
         THEN IF zeroForOne
              THEN whirlpoolGetTokenAmountAFromLiquidity(
                       sqrtPriceX64Target, sqrtPriceX64Current, liquidity, TRUE)
              ELSE whirlpoolGetTokenAmountBFromLiquidity(
                       sqrtPriceX64Current, sqrtPriceX64Target, liquidity, TRUE)
         ELSE IF zeroForOne
              THEN whirlpoolGetTokenAmountBFromLiquidity(
                       sqrtPriceX64Target, sqrtPriceX64Current, liquidity, FALSE)
              ELSE whirlpoolGetTokenAmountAFromLiquidity(
                       sqrtPriceX64Current, sqrtPriceX64Target, liquidity, FALSE),
         LAMBDA stepMax :
    IF IsPanic(stepMax) THEN stepMax ELSE
    With(IF baseInput
         THEN IF ZCmp(amountRemainingSubtractFee, stepMax) >= 0
              THEN sqrtPriceX64Target
              ELSE whirlpoolGetNextSqrtPriceX64FromInput(
                       sqrtPriceX64Current, liquidity, amountRemainingSubtractFee,
                       zeroForOne)
         ELSE IF ZCmp(amountRemainingNeg, stepMax) >= 0
              THEN sqrtPriceX64Target
              ELSE whirlpoolGetNextSqrtPriceX64FromOutput(
                       sqrtPriceX64Current, liquidity, amountRemainingNeg, zeroForOne),
         LAMBDA SqrtPriceX64Next :
    IF IsPanic(SqrtPriceX64Next) THEN SqrtPriceX64Next ELSE
    \* step 2: the amounts for the price actually reached
    With(IF ZCmp(SqrtPriceX64Next, sqrtPriceX64Target) = 0 /\ baseInput THEN stepMax
         ELSE IF zeroForOne
         THEN whirlpoolGetTokenAmountAFromLiquidity(
                  SqrtPriceX64Next, sqrtPriceX64Current, liquidity, TRUE)
         ELSE whirlpoolGetTokenAmountBFromLiquidity(
                  sqrtPriceX64Current, SqrtPriceX64Next, liquidity, TRUE),
         LAMBDA AmountIn :
    IF IsPanic(AmountIn) THEN AmountIn ELSE
    With(IF ZCmp(SqrtPriceX64Next, sqrtPriceX64Target) = 0 /\ ~baseInput THEN stepMax
         ELSE IF zeroForOne
         THEN whirlpoolGetTokenAmountBFromLiquidity(
                  SqrtPriceX64Next, sqrtPriceX64Current, liquidity, FALSE)
         ELSE whirlpoolGetTokenAmountAFromLiquidity(
                  sqrtPriceX64Current, SqrtPriceX64Next, liquidity, FALSE),
         LAMBDA AmountOut :
    IF IsPanic(AmountOut) THEN AmountOut ELSE
        [sqrtPriceNext |-> SqrtPriceX64Next,
         amountIn |-> AmountIn,
         amountOut |-> adjusted(AmountOut, ZQuo(ZMul(AmountOut, ZNat(90)), ZNat(100))),
         \* step 3: the fee
         feeAmount |->
             IF baseInput /\ ZCmp(SqrtPriceX64Next, sqrtPriceX64Target) # 0
             THEN ZSub(amountRemaining, AmountIn)
             ELSE whirlpoolMulDivCeil(AmountIn, feeRateBig, ZSub(feeDenom, feeRateBig)),
         err |-> Nil]))))

\* The step with the fee charged on top of the amount in instead of being
\* deducted from the amount before the price is moved.
whirlpoolSwapStepComputeFeeOnTop(sqrtPriceCurrent, sqrtPriceTarget, liquidity, amountRemaining, feeRate, zeroForOne) ==
    IF ZIsZero(liquidity)
    THEN [sqrtPriceNext |-> NilInt, amountIn |-> NilInt, amountOut |-> NilInt,
          feeAmount |-> NilInt, err |-> <<"liquidity is zero">>]
    ELSE IF ZIsZero(ZAbs(amountRemaining))
    THEN [sqrtPriceNext |-> sqrtPriceCurrent, amountIn |-> ZeroInt,
          amountOut |-> ZeroInt, feeAmount |-> ZeroInt, err |-> Nil]
    ELSE With(whirlpoolSwapStepComputePrecise(
                  sqrtPriceCurrent, sqrtPriceTarget, liquidity, ZAbs(amountRemaining),
                  0, zeroForOne),
              LAMBDA step :
             IF IsPanic(step) THEN step
             ELSE [step EXCEPT !.feeAmount =
                      whirlpoolMulDivCeil(step.amountIn, ZNat(feeRate),
                                          ZNat(FEE_RATE_DENOMINATOR))])

whirlpoolSwapStepCompute(sqrtPriceCurrent, sqrtPriceTarget, liquidity, amountRemaining, feeRate, zeroForOne) ==
    IF ZIsZero(liquidity)
    THEN [sqrtPriceNext |-> NilInt, amountIn |-> NilInt, amountOut |-> NilInt,
          feeAmount |-> NilInt, err |-> <<"liquidity is zero">>]
    ELSE IF ZIsZero(ZAbs(amountRemaining))
    THEN [sqrtPriceNext |-> sqrtPriceCurrent, amountIn |-> ZeroInt,
          amountOut |-> ZeroInt, feeAmount |-> ZeroInt, err |-> Nil]
    ELSE whirlpoolSwapStepComputePrecise(
             sqrtPriceCurrent, sqrtPriceTarget, liquidity, ZAbs(amountRemaining),
             feeRate, zeroForOne)

\* The target price of the single step: 0.5% away from the current price,
\* within the price limit of the direction.
targetPriceOf(sqrtPriceX64, zeroForOne) ==
    LET sqrtPriceLimitX64 ==
            IF zeroForOne THEN ZAdd(MIN_SQRT_PRICE_X64, ZNat(1))
                          ELSE ZSub(MAX_SQRT_PRICE_X64, ZNat(1))
        bounded(moved) ==
            IF zeroForOne
            THEN IF ZCmp(moved, sqrtPriceLimitX64) < 0 THEN sqrtPriceLimitX64 ELSE moved
            ELSE IF ZCmp(moved, sqrtPriceLimitX64) > 0 THEN sqrtPriceLimitX64 ELSE moved
    IN  bounded(IF zeroForOne
                THEN ZQuo(ZMul(sqrtPriceX64, ZNat(995)), ZNat(1000))
                ELSE ZQuo(ZMul(sqrtPriceX64, ZNat(1005)), ZNat(1000)))

\* The single-step swap computation on pool p.  currentTick, the saved tick
\* array start index and the bitmap extension are accepted and not used.
whirlpoolSwapCompute(p, currentTick, zeroForOne, amountSpecified, fee, lastSavedTickArrayStartIndex) ==
    IF ZIsZero(amountSpecified)
    THEN [val |-> NilInt, err |-> <<"input amount cannot be zero">>]
    ELSE
    LET baseInput    == ZIsPositive(amountSpecified)
        sqrtPriceX64 == p.SqrtPrice
        liquidity    == p.Liquidity
        targetPrice  == targetPriceOf(sqrtPriceX64, zeroForOne)
        result(amountCalculated) ==
            IF ZIsZero(amountCalculated)
            THEN [val |-> NilInt, err |-> <<"calculated amount is zero">>]
            ELSE [val |-> amountCalculated, err |-> Nil]
    IN
    With(whirlpoolSwapStepCompute(sqrtPriceX64, targetPrice, liquidity,
                                  amountSpecified, fee, zeroForOne),
         LAMBDA step :
        IF IsPanic(step) THEN step
        ELSE IF step.err # Nil
        THEN [val |-> NilInt, err |-> Errorf("swap step compute failed", step.err)]
        ELSE result(IF baseInput THEN ZNeg(step.amountOut)
                                 ELSE ZAdd(step.amountIn, step.feeAmount)))

\* pool.FeeRate, a uint16, goes through uint64, cosmath.Int, int64 and
\* uint32 unchanged
ComputeWhirlpoolAmountOutFormat(p, inputTokenMint, inputAmount) ==
    LET zeroForOne == inputTokenMint = String(p.TokenMintA)
        firstTickArrayStartIndex ==
            getWhirlpoolTickArrayStartIndexByTick(p.TickCurrentIndex, p.TickSpacing)
    IN
    With(whirlpoolSwapCompute(p, p.TickCurrentIndex, zeroForOne, inputAmount,
                              p.FeeRate, firstTickArrayStartIndex),
         LAMBDA r :
        IF IsPanic(r) THEN r
        ELSE IF r.err # Nil
        THEN [val |-> NilInt,
              err |-> Errorf("failed to compute Whirlpool swap amount", r.err)]
        ELSE [val |-> r.val, err |-> Nil])

\* The retry loop of Quote from the given attempt on.  results[n] is the
\* outcome of the n-th call of ComputeWhirlpoolAmountOutFormat; calls counts
\* the swap computations made so far and slept lists the sleeps, in
\* milliseconds.
RECURSIVE QuoteLoop(_, _, _, _, _, _)
QuoteLoop(p, inputMint, results, attempt, calls, slept) ==
    LET maxRetries == 2
        r == results[attempt + 1]
    IN  IF inputMint # String(p.TokenMintA) /\ inputMint # String(p.TokenMintB)
        THEN [val |-> NilInt, err |-> <<"input mint not found in pool">>,
              computeCalls |-> calls, slept |-> slept]
        ELSE IF IsPanic(r) THEN r
        ELSE IF r.err # Nil
        THEN IF attempt < maxRetries /\ isTemporaryError(r.err)
             THEN QuoteLoop(p, inputMint, results, attempt + 1, calls + 1,
                            Append(slept, 50 * (attempt + 1)))
             ELSE [val |-> NilInt,
                   err |-> Errorf("amount calculation failed", r.err),
                   computeCalls |-> calls + 1, slept |-> slept]
        ELSE IF validateQuoteOutput(r.val) # Nil
        THEN [val |-> NilInt,
              err |-> Errorf("quote output validation failed",
                             validateQuoteOutput(r.val)),
              computeCalls |-> calls + 1, slept |-> slept]
        ELSE [val |-> ZNeg(r.val), err |-> Nil, computeCalls |-> calls + 1,
              slept |-> slept]

\* The loop on the pool's own computation, which gives the same outcome
\* every time it is called: it reads the pool and the arguments alone.
QuoteAttempts(p, inputMint, inputAmount, attempt, calls) ==
    IF inputMint # String(p.TokenMintA) /\ inputMint # String(p.TokenMintB)
    THEN QuoteLoop(p, inputMint, <<>>, attempt, calls, <<>>)
    ELSE With(ComputeWhirlpoolAmountOutFormat(
                  p,
                  IF inputMint = String(p.TokenMintA)
                  THEN String(p.TokenMintA) ELSE String(p.TokenMintB),
                  inputAmount),
              LAMBDA r : QuoteLoop(p, inputMint, <<r, r, r>>, attempt, calls, <<>>))

\* WhirlpoolPool.Quote.  It returns the amount and the error, or the panic
\* of the computation.
Quote(p, inputMint, inputAmount) ==
    IF validateQuoteInputs(inputMint, inputAmount) # Nil
    THEN [val |-> NilInt,
          err |-> Errorf("quote input validation failed",
                         validateQuoteInputs(inputMint, inputAmount)),
          computeCalls |-> 0, slept |-> <<>>]
    ELSE IF validatePoolState(p) # Nil
    THEN [val |-> NilInt,
          err |-> Errorf("pool state validation failed", validatePoolState(p)),
          computeCalls |-> 0, slept |-> <<>>]
    ELSE QuoteAttempts(p, inputMint, inputAmount, 0, 0)

-----------------------------------------------------------------------------
(* Addresses.  A program-derived address is a hash of its seeds and the    *)
(* program id; the model keeps the seeds, that is, it takes the hash to be *)
(* collision-free and the bump search to succeed.                          *)

MustPublicKeyFromBase58(text) == [fromBase58 |-> text]

ORCA_WHIRLPOOL_PROGRAM_ID ==
    MustPublicKeyFromBase58("whirLbMiicVdio4qvUfM5KAg6Ct8VwpYzGff3uctyCc")

TOKEN_PROGRAM_ID ==
    MustPublicKeyFromBase58("TokenkegQfeZyiNwAJbNbGKPFXCWuBvf9Ss623VQ5DA")

MEMO_PROGRAM_ID ==
    MustPublicKeyFromBase58("MemoSq4gqABAXKb96qnH8TysNcWxMyWCqXgDLGmfcHr")

ASSOCIATED_TOKEN_PROGRAM_ID ==
    MustPublicKeyFromBase58("ATokenGPvbdGVxr1b2hvZbsiqW5xWH25efTNsLJA8knL")

SwapV2Discriminator == <<43, 4, 237, 11, 26, 201, 30, 98>>

TICK_ARRAY_SEED == "tick_array"

FindProgramAddress(seeds, programID) == [pda |-> [seeds |-> seeds, program |-> programID]]

FindAssociatedTokenAddress(wallet, mint) ==
    FindProgramAddress(<<wallet, TOKEN_PROGRAM_ID, mint>>, ASSOCIATED_TOKEN_PROGRAM_ID)

\* fmt.Sprintf("%d", n): the decimal digits of n, with a minus sign in
\* front of a negative number
DigitChar(d) == <<"0", "1", "2", "3", "4", "5", "6", "7", "8", "9">>[d + 1]

RECURSIVE DecimalDigits(_)
DecimalDigits(n) ==
    IF n < 10 THEN <<DigitChar(n)>>
    ELSE Append(DecimalDigits(n \div 10), DigitChar(n % 10))

\* The decimal digits without the sign.
Sprintf_dUnsigned(n) == IF n < 0 THEN DecimalDigits(0 - n) ELSE DecimalDigits(n)

Sprintf_d(n) == IF n < 0 THEN <<"-">> \o DecimalDigits(0 - n) ELSE DecimalDigits(n)

\* Go's integer division and remainder (truncated), for divisor > 0
GoQuo(a, b) == IF a >= 0 THEN a \div b ELSE 0 - ((0 - a) \div b)

GoRem(a, b) == a - b * GoQuo(a, b)

\* tick - tick % window, with Go's remainder, which has the sign of tick.
getWhirlpoolTickArrayStartIndex(tick, tickSpacing) ==
    tick - GoRem(tick, getWhirlpoolTickCount(tickSpacing))

\* The division that truncates toward zero.
floorDivisionTruncating(dividend, divisor) ==
    IF divisor = 0 THEN Panic("integer divide by zero")
    ELSE [val |-> GoQuo(dividend, divisor)]

\* The quotient lowered for every negative dividend, exact or not.
floorDivisionLoweringExact(dividend, divisor) ==
    IF divisor = 0 THEN Panic("integer divide by zero")
    ELSE IF (dividend < 0) # (divisor < 0)
    THEN [val |-> GoQuo(dividend, divisor) - 1]
    ELSE [val |-> GoQuo(dividend, divisor)]

\* for divisor >= 0 (a tick count); the result is [val |-> quotient], or
\* the panic of dividing by zero
floorDivision(dividend, divisor) ==
    IF divisor = 0 THEN Panic("integer divide by zero")
    ELSE IF ((dividend < 0) # (divisor < 0)) /\ GoRem(dividend, divisor) # 0
    THEN [val |-> GoQuo(dividend, divisor) - 1]
    ELSE [val |-> GoQuo(dividend, divisor)]

DeriveWhirlpoolTickArrayPDA(whirlpoolPubkey, startTickIndex) ==
    FindProgramAddress(<<TICK_ARRAY_SEED, whirlpoolPubkey, Sprintf_d(startTickIndex)>>,
                       ORCA_WHIRLPOOL_PROGRAM_ID)

\* [val |-> the three tick arrays of a swap], or the panic of floorDivision
DeriveMultipleWhirlpoolTickArrayPDAs(whirlpoolPubkey, currentTick, tickSpacing, aToB) ==
    LET ticksInArray == TICK_ARRAY_SIZE * tickSpacing
        quotient     == floorDivision(currentTick, ticksInArray)
    IN  IF IsPanic(quotient) THEN quotient
        ELSE LET startTickIndexBase == quotient.val * ticksInArray
                 shifted == currentTick + tickSpacing >= startTickIndexBase + ticksInArray
                 offsets == IF aToB THEN <<0, 0 - 1, 0 - 2>>
                            ELSE IF shifted THEN <<1, 2, 3>> ELSE <<0, 1, 2>>
             IN  [val |-> [i \in 1..3 |->
                     DeriveWhirlpoolTickArrayPDA(
                         whirlpoolPubkey, startTickIndexBase + offsets[i] * ticksInArray)]]

DeriveWhirlpoolOraclePDA(whirlpoolPubkey) ==
    FindProgramAddress(<<"oracle", whirlpoolPubkey>>, ORCA_WHIRLPOOL_PROGRAM_ID)

-----------------------------------------------------------------------------
(* The instruction builder.  The ledger's answers to GetAccountInfo are an *)
(* input: rpc[n] is the error of the n-th call made for one account, Nil   *)
(* when the account was fetched.                                           *)

isAccountNotFoundError(err) ==
    \/ ErrorContains(err, "account not found")
    \/ ErrorContains(err, "could not find account")
    \/ ErrorContains(err, "invalid param")

\* Every error is taken for a rate limit.
isRateLimitErrorAny(err) == err = err

isRateLimitError(err) ==
    \/ ErrorContains(err, "too many requests")
    \/ ErrorContains(err, "rate limit")
    \/ ErrorContains(err, "429")
    \/ ErrorContains(err, "quota exceeded")
    \/ ErrorContains(err, "timeout")
    \/ ErrorContains(err, "connection reset")

\* the loop of checkAccountExists from the given attempt on; slept lists
\* the sleeps from that attempt on, in milliseconds
RECURSIVE checkAccountExistsFrom(_, _)
checkAccountExistsFrom(rpc, attempt) ==
    LET maxRetries == 3
        answer     == rpc[attempt + 1]
        baseDelay  == 100
    IN  IF answer = Nil
        THEN [exists |-> TRUE, err |-> Nil, calls |-> attempt + 1, slept |-> <<>>]
        ELSE IF isAccountNotFoundError(answer)
        THEN [exists |-> FALSE, err |-> Nil, calls |-> attempt + 1, slept |-> <<>>]
        ELSE IF isRateLimitError(answer) /\ attempt < maxRetries
        THEN [checkAccountExistsFrom(rpc, attempt + 1)
                 EXCEPT !.slept = <<baseDelay * 2^attempt>> \o @]
        ELSE [exists |-> FALSE,
              err |-> Errorf("failed to check account existence", answer),
              calls |-> attempt + 1, slept |-> <<>>]

checkAccountExists(rpc) == checkAccountExistsFrom(rpc, 0)

\* the associated token account, whatever the ledger answers
getOrCreateTokenAccount(userAddr, tokenMint, rpc) ==
    LET ata == FindAssociatedTokenAddress(userAddr, tokenMint)
        r   == checkAccountExists(rpc)
    IN  IF r.err # Nil THEN [val |-> ata, err |-> Nil, calls |-> r.calls]
        ELSE IF ~r.exists THEN [val |-> ata, err |-> Nil, calls |-> r.calls]
        ELSE [val |-> ata, err |-> Nil, calls |-> r.calls]

\* The low 64 bits alone of a wider value.
NToBytesLELow64(n, width) ==
    [j \in 1..(IF width > 8 THEN 8 ELSE width) |->
        LET bit == 8 * (j - 1)
            d   == bit \div 15
            v   == Dig(n, d + 1) + Base * Dig(n, d + 2)
        IN  (v \div 2^(bit % 15)) % 256]

\* the width bytes of n, least significant first (n below 256^width):
\* byte j holds bits 8j .. 8j+7, which lie in at most two adjacent digits
NToBytesLE(n, width) ==
    [j \in 1..width |->
        LET bit == 8 * (j - 1)
            d   == bit \div 15
            v   == Dig(n, d + 1) + Base * Dig(n, d + 2)
        IN  (v \div 2^(bit % 15)) % 256]

IsUint64(x) == ~ZIsNegative(x) /\ ZCmp(x, ZLsh(OneInt, 64)) < 0

NewAccountMeta(pubKey, writable, signer) ==
    [PublicKey |-> pubKey, IsWritable |-> writable, IsSigner |-> signer]

BoolByte(b) == IF b THEN 1 ELSE 0

createWhirlpoolSwapV2Instruction(amount, otherAmountThreshold, sqrtPriceLimit, amountSpecifiedIsInput, aToB, tokenProgramA, tokenProgramB, memoProgram, tokenAuthority, whirlpool, tokenMintA, tokenMintB, tokenOwnerAccountA, tokenVaultA, tokenOwnerAccountB, tokenVaultB, tickArray0, tickArray1, tickArray2, oracle) ==
    LET data == SwapV2Discriminator
                  \o NToBytesLE(amount.mag, 8)
                  \o NToBytesLE(otherAmountThreshold.mag, 8)
                  \o NToBytesLE(sqrtPriceLimit.mag, 16)
                  \o <<BoolByte(amountSpecifiedIsInput)>>
                  \o <<BoolByte(aToB)>>
                  \o <<0>>
        accounts ==
            << NewAccountMeta(tokenProgramA, FALSE, FALSE),
               NewAccountMeta(tokenProgramB, FALSE, FALSE),
               NewAccountMeta(memoProgram, FALSE, FALSE),
               NewAccountMeta(tokenAuthority, FALSE, TRUE),
               NewAccountMeta(whirlpool, TRUE, FALSE),
               NewAccountMeta(tokenMintA, FALSE, FALSE),
               NewAccountMeta(tokenMintB, FALSE, FALSE),
               NewAccountMeta(tokenOwnerAccountA, TRUE, FALSE),
               NewAccountMeta(tokenVaultA, TRUE, FALSE),
               NewAccountMeta(tokenOwnerAccountB, TRUE, FALSE),
               NewAccountMeta(tokenVaultB, TRUE, FALSE),
               NewAccountMeta(tickArray0, TRUE, FALSE),
               NewAccountMeta(tickArray1, TRUE, FALSE),
               NewAccountMeta(tickArray2, TRUE, FALSE),
               NewAccountMeta(oracle, TRUE, FALSE) >>
    IN  [ProgramID |-> ORCA_WHIRLPOOL_PROGRAM_ID, Accounts |-> accounts, Data |-> data]

\* BuildSwapInstructions that lists the input side before the output side.
BuildSwapInstructionsInputFirst(p, userAddr, inputMint, amountIn, minOutAmountWithDecimals, rpcA, rpcB) ==
    IF inputMint # String(p.TokenMintA) /\ inputMint # String(p.TokenMintB)
    THEN [val |-> <<>>, err |-> <<"input mint not found in pool">>, rpcCalls |-> 0]
    ELSE
    LET aToB == inputMint = String(p.TokenMintA)
        userTokenAccountA == getOrCreateTokenAccount(userAddr, p.TokenMintA, rpcA)
        userTokenAccountB == getOrCreateTokenAccount(userAddr, p.TokenMintB, rpcB)
        sqrtPriceLimit == IF aToB THEN MIN_SQRT_PRICE_X64 ELSE MAX_SQRT_PRICE_X64
        tickArrays == DeriveMultipleWhirlpoolTickArrayPDAs(
                          p.PoolId, p.TickCurrentIndex, p.TickSpacing, aToB)
        oracleAddr == DeriveWhirlpoolOraclePDA(p.PoolId)
    IN  IF IsPanic(tickArrays) THEN tickArrays
        ELSE IF ~IsUint64(amountIn) \/ ~IsUint64(minOutAmountWithDecimals)
        THEN Panic("Uint64() out of bound")
        ELSE [val |-> << createWhirlpoolSwapV2Instruction(
                            amountIn, minOutAmountWithDecimals, sqrtPriceLimit,
                            TRUE, aToB,
                            TOKEN_PROGRAM_ID, TOKEN_PROGRAM_ID, MEMO_PROGRAM_ID,
                            userAddr, p.PoolId,
                            IF aToB THEN p.TokenMintA ELSE p.TokenMintB,
                            IF aToB THEN p.TokenMintB ELSE p.TokenMintA,
                            IF aToB THEN userTokenAccountA.val ELSE userTokenAccountB.val,
                            IF aToB THEN p.TokenVaultA ELSE p.TokenVaultB,
                            IF aToB THEN userTokenAccountB.val ELSE userTokenAccountA.val,
                            IF aToB THEN p.TokenVaultB ELSE p.TokenVaultA,
                            tickArrays.val[1], tickArrays.val[2], tickArrays.val[3],
                            oracleAddr) >>,
              err |-> Nil,
              rpcCalls |-> userTokenAccountA.calls + userTokenAccountB.calls]

\* WhirlpoolPool.BuildSwapInstructions.  It returns the instruction list
\* and the error, or panics.
BuildSwapInstructions(p, userAddr, inputMint, amountIn, minOutAmountWithDecimals, rpcA, rpcB) ==
    IF inputMint # String(p.TokenMintA) /\ inputMint # String(p.TokenMintB)
    THEN [val |-> <<>>, err |-> <<"input mint not found in pool">>, rpcCalls |-> 0]
    ELSE
    LET aToB == inputMint = String(p.TokenMintA)
        userTokenAccountA == getOrCreateTokenAccount(userAddr, p.TokenMintA, rpcA)
        userTokenAccountB == getOrCreateTokenAccount(userAddr, p.TokenMintB, rpcB)
        sqrtPriceLimit == IF aToB THEN MIN_SQRT_PRICE_X64 ELSE MAX_SQRT_PRICE_X64
        tickArrays == DeriveMultipleWhirlpoolTickArrayPDAs(
                          p.PoolId, p.TickCurrentIndex, p.TickSpacing, aToB)
        oracleAddr == DeriveWhirlpoolOraclePDA(p.PoolId)
    IN  IF IsPanic(tickArrays) THEN tickArrays
        ELSE IF ~IsUint64(amountIn) \/ ~IsUint64(minOutAmountWithDecimals)
        THEN Panic("Uint64() out of bound")
        ELSE [val |-> << createWhirlpoolSwapV2Instruction(
                            amountIn, minOutAmountWithDecimals, sqrtPriceLimit,
                            TRUE, aToB,
                            TOKEN_PROGRAM_ID, TOKEN_PROGRAM_ID, MEMO_PROGRAM_ID,
                            userAddr, p.PoolId, p.TokenMintA, p.TokenMintB,
                            userTokenAccountA.val, p.TokenVaultA,
                            userTokenAccountB.val, p.TokenVaultB,
                            tickArrays.val[1], tickArrays.val[2], tickArrays.val[3],
                            oracleAddr) >>,
              err |-> Nil,
              rpcCalls |-> userTokenAccountA.calls + userTokenAccountB.calls]

-----------------------------------------------------------------------------
(* SpecQuote: Quote and BuildSwapInstructions on a decoded pool.  The pool *)
(* is any of a set of decoded states, healthy and degenerate; the adapter  *)
(* attaches its address to it and hands it out.  Neither operation assigns *)
(* to the pool, so the result of a call does not depend on the calls       *)
(* before it, and a behaviour makes one call.                              *)

Key(n) == [i \in 1..32 |-> n]

MintA == Key(1)

MintB == Key(2)

OtherMint == Key(9)

UserAddr == Key(7)

QuotePools ==
    { [WhirlpoolPool EXCEPT !.Liquidity = l, !.SqrtPrice = sp, !.TickSpacing = ts,
                            !.FeeRate = fr, !.TickCurrentIndex = t,
                            !.TokenMintA = ma, !.TokenMintB = MintB,
                            !.TokenVaultA = Key(3), !.TokenVaultB = Key(4),
                            !.WhirlpoolsConfig = Key(6)] :
        l \in {ZeroInt, OneInt, ZMul(ZNat(10^6), ZNat(10^6))},
        sp \in {ZeroInt, ZLsh(OneInt, U64Resolution), ZLsh(ZNat(3), U64Resolution - 1)},
        ts \in {0, 64},
        fr \in {0, 3000},
        t \in {0 - 1, 5632},
        ma \in {MintA, ZeroKey} }

QuoteMints == {String(MintA), String(MintB), String(OtherMint), InvalidString}

MaxQuoteAmount == ZMul(ZNat(10^9), ZNat(10^9))

\* On the pool with liquidity 10^12 the step reaches its target price, 0.5%
\* away, at about 5 * 10^9 units: the amounts lie on both sides of it.
QuoteAmounts ==
    {ZeroInt, ZNeg(ZNat(1000)), OneInt, ZNat(1000), ZNat(2000),
     ZMul(ZNat(5), ZNat(10^9)), ZMul(ZNat(6), ZNat(10^9)), MaxQuoteAmount,
     ZAdd(MaxQuoteAmount, OneInt)}

BuildAmounts == {ZNat(1000), ZLsh(OneInt, 64)}

RateLimited == <<"429 too many requests">>

NotFound == <<"account not found">>

Refused == <<"connection refused">>

\* the answers for the two token accounts
RpcScripts ==
    { [a |-> <<Nil, Nil, Nil, Nil>>, b |-> <<NotFound, Nil, Nil, Nil>>],
      [a |-> <<RateLimited, RateLimited, NotFound, Nil>>,
       b |-> <<RateLimited, RateLimited, RateLimited, RateLimited>>],
      [a |-> <<Refused, Nil, Nil, Nil>>, b |-> <<RateLimited, Nil, Nil, Nil>>] }

\* the address of the pool's account
PoolAddr == Key(5)

InitQuote ==
    /\ pool \in QuotePools
    /\ args = [none |-> TRUE]
    /\ call = "Decode"
    /\ ret = NoRet

\* The adapter attaches the account's address to the pool it decoded, and
\* hands the pool out.
FetchPoolsByPair ==
    /\ call = "Decode"
    /\ pool' = [pool EXCEPT !.PoolId = PoolAddr]
    /\ call' = "FetchPoolsByPair"
    /\ UNCHANGED <<args, ret>>

\* Quote that leaves the pool at the price the swap would move it to.
QuoteCallMovingPrice ==
    /\ call = "FetchPoolsByPair"
    /\ \E inputMint \in QuoteMints, inputAmount \in QuoteAmounts :
        \E r \in {Quote(pool, inputMint, inputAmount)} :
            /\ call' = "Quote"
            /\ args' = [inputMint |-> inputMint, inputAmount |-> inputAmount]
            /\ ret' = IF IsPanic(r) THEN [kind |-> "panic", msg |-> r.panic]
                      ELSE [kind |-> "return", val |-> r.val, err |-> r.err,
                            computeCalls |-> r.computeCalls]
            /\ pool' = IF IsPanic(r) \/ r.err # Nil THEN pool
                       ELSE [pool EXCEPT !.SqrtPrice =
                                targetPriceOf(pool.SqrtPrice,
                                              inputMint = String(pool.TokenMintA))]

QuoteCall ==
    /\ call = "FetchPoolsByPair"
    /\ \E inputMint \in QuoteMints, inputAmount \in QuoteAmounts :
        \E r \in {Quote(pool, inputMint, inputAmount)} :
            /\ call' = "Quote"
            /\ args' = [inputMint |-> inputMint, inputAmount |-> inputAmount]
            /\ ret' = IF IsPanic(r) THEN [kind |-> "panic", msg |-> r.panic]
                      ELSE [kind |-> "return", val |-> r.val, err |-> r.err,
                            computeCalls |-> r.computeCalls]
            /\ UNCHANGED pool

BuildSwapInstructionsCall ==
    /\ call = "FetchPoolsByPair"
    /\ \E inputMint \in QuoteMints, amountIn \in BuildAmounts, rpc \in RpcScripts :
        \E r \in {BuildSwapInstructions(pool, UserAddr, inputMint, amountIn, OneInt,
                                        rpc.a, rpc.b)} :
            /\ call' = "BuildSwapInstructions"
            /\ args' = [inputMint |-> inputMint, amountIn |-> amountIn, rpc |-> rpc]
            /\ ret' = IF IsPanic(r) THEN [kind |-> "panic", msg |-> r.panic]
                      ELSE [kind |-> "return", val |-> r.val, err |-> r.err,
                            rpcCalls |-> r.rpcCalls]
            /\ UNCHANGED pool

NextQuote == FetchPoolsByPair \/ QuoteCall \/ BuildSwapInstructionsCall

SpecQuote == InitQuote /\ [][NextQuote]_vars

UnknownMintOf(p, inputMint) ==
    inputMint # String(p.TokenMintA) /\ inputMint # String(p.TokenMintB)

UnknownMint == <<"input mint not found in pool">>

\* C8: every operation that takes an input mint, Quote and
\* BuildSwapInstructions, fails with the unknown-mint error for every pool,
\* whatever its state, when the input mint is neither token A nor token B of
\* the pool, and returns no amount and no instruction
C8_UnknownMintRejected ==
    (call \in {"Quote", "BuildSwapInstructions"} /\ UnknownMintOf(pool, args.inputMint))
        => /\ ret.kind = "return"
           /\ ret.err = UnknownMint
           /\ call = "Quote" => IsNilInt(ret.val)
           /\ call = "BuildSwapInstructions" => ret.val = <<>>

ZeroAmount == <<"quote input validation failed", "input amount cannot be zero">>

ZeroLiquidity == <<"pool state validation failed", "pool has zero liquidity">>

ZeroPrice == <<"pool state validation failed", "pool has zero sqrt price">>

QuoteInputsValid == validateQuoteInputs(args.inputMint, args.inputAmount) = Nil

\* C9: Quote fails with a validation error, and does not run the swap
\* computation, whenever the requested amount is zero, the pool's liquidity
\* is zero or the pool's sqrtPrice is zero; the error names the amount when
\* the amount is zero, and otherwise an input error or the first pool
\* invariant broken
C9_ValidationBeforeCompute ==
    (call = "Quote" /\ (\/ ZIsZero(args.inputAmount)
                        \/ ZIsZero(pool.Liquidity)
                        \/ ZIsZero(pool.SqrtPrice)))
        => /\ ret.kind = "return"
           /\ ret.err # Nil
           /\ IsNilInt(ret.val)
           /\ ret.computeCalls = 0
           /\ ret.err[1] \in {"quote input validation failed",
                              "pool state validation failed"}
           /\ ZIsZero(args.inputAmount) => ret.err = ZeroAmount
           /\ (QuoteInputsValid /\ ZIsZero(pool.Liquidity)) => ret.err = ZeroLiquidity
           /\ (QuoteInputsValid /\ ~ZIsZero(pool.Liquidity) /\ ZIsZero(pool.SqrtPrice))
                 => ret.err = ZeroPrice

\* the three rejections have all been seen: here a zero amount on a healthy
\* pool
C9_Witness ==
    /\ call = "Quote"
    /\ ZIsZero(args.inputAmount)
    /\ validatePoolState(pool) = Nil
    /\ args.inputMint = String(pool.TokenMintA)
    /\ ret.kind = "return"
    /\ ret.err = ZeroAmount
    /\ ret.computeCalls = 0

\* C10: on every successful exact-input Quote the returned amount is
\* negative
C10_QuoteIsNegative ==
    (call = "Quote" /\ ret.kind = "return" /\ ret.err = Nil)
        => ZIsNegative(ret.val)

QuoteSucceeded == call = "Quote" /\ ret.kind = "return" /\ ret.err = Nil

\* the error of a quote whose swap computation came out as zero
DegenerateQuote ==
    <<"amount calculation failed", "failed to compute Whirlpool swap amount",
      "calculated amount is zero">>

\* C11: a successful quote is never zero: every amount Quote returns
\* without an error is an integer other than zero, and a Quote that returns
\* an error returns no amount, so a swap computation that comes out as zero
\* ends in an error and not in a zero amount
C11_QuoteNeverZero ==
    (call = "Quote" /\ ret.kind = "return")
        => /\ ret.err = Nil => (~IsNilInt(ret.val) /\ ret.val # ZeroInt)
           /\ ret.err # Nil => IsNilInt(ret.val)

\* the quote of another amount on the pool and the mint of this state
QuoteOf(inputAmount) == Quote(pool, args.inputMint, inputAmount)

\* C12: quotes are monotonic: for a fixed pool state and a fixed direction,
\* when amountIn1 <= amountIn2 and both quotes succeed, the magnitude of the
\* output quoted for amountIn2 is not smaller than the one quoted for
\* amountIn1
C12_QuoteMonotonic ==
    QuoteSucceeded =>
        \A amountIn2 \in QuoteAmounts :
            (ZCmp(args.inputAmount, amountIn2) <= 0 /\ QuoteOf(amountIn2).err = Nil)
                => ZCmp(ZAbs(ret.val), ZAbs(QuoteOf(amountIn2).val)) <= 0

\* a quote that stops short of the target price and a larger one that
\* reaches it, with a strictly larger output
C12_Witness ==
    /\ QuoteSucceeded
    /\ args.inputAmount = ZNat(2000)
    /\ QuoteOf(ZMul(ZNat(6), ZNat(10^9))).err = Nil
    /\ QuoteOf(MaxQuoteAmount).err = Nil
    /\ ZCmp(ZAbs(ret.val), ZAbs(QuoteOf(ZMul(ZNat(6), ZNat(10^9))).val)) < 0
    /\ QuoteOf(ZMul(ZNat(6), ZNat(10^9))).val = QuoteOf(MaxQuoteAmount).val

\* a quote of one unit, which the fee eats: the computation comes out as
\* zero and Quote fails
C11_Witness ==
    /\ call = "Quote"
    /\ ret.kind = "return"
    /\ ret.err = DegenerateQuote
    /\ IsNilInt(ret.val)
    /\ ret.computeCalls = 1

BuildSucceeded == call = "BuildSwapInstructions" /\ ret.kind = "return" /\ ret.err = Nil

\* the addresses of the accounts of an instruction, in their order
AccountKeys(instruction) ==
    [i \in 1..Len(instruction.Accounts) |-> instruction.Accounts[i].PublicKey]

OtherMintOf(p, inputMint) ==
    IF inputMint = String(p.TokenMintA) THEN String(p.TokenMintB) ELSE String(p.TokenMintA)

\* C19: positions 5 to 10 of the account list do not depend on the
\* direction: for the same pool and user, building with input mint A and
\* building with input mint B both place mint A, mint B, user account A,
\* vault A, user account B, vault B there, in that order; between the two
\* instructions only the direction flag, the price limit and the three
\* tick-array accounts may differ
C19_DirectionIndependent ==
    BuildSucceeded =>
        \A rpc \in RpcScripts :
            LET swap  == ret.val[1]
                built == BuildSwapInstructions(
                             pool, UserAddr, OtherMintOf(pool, args.inputMint),
                             args.amountIn, OneInt, rpc.a, rpc.b)
                other == built.val[1]
            IN  /\ ~IsPanic(built) /\ built.err = Nil
                /\ SubSeq(AccountKeys(swap), 6, 11) =
                       << pool.TokenMintA, pool.TokenMintB,
                          FindAssociatedTokenAddress(UserAddr, pool.TokenMintA),
                          pool.TokenVaultA,
                          FindAssociatedTokenAddress(UserAddr, pool.TokenMintB),
                          pool.TokenVaultB >>
                /\ other.ProgramID = swap.ProgramID
                /\ Len(other.Accounts) = Len(swap.Accounts)
                /\ \A i \in 1..Len(swap.Accounts) :
                       i \notin 12..14 => other.Accounts[i] = swap.Accounts[i]
                /\ Len(other.Data) = Len(swap.Data)
                /\ \A j \in 1..Len(swap.Data) :
                       (j \notin 25..40 /\ j # 42) => other.Data[j] = swap.Data[j]

\* a swap of token A into token B has been built, and the swap of token B
\* into token A on the same pool differs from it in the direction flag and
\* in its first tick array
C19_Witness ==
    /\ BuildSucceeded
    /\ args.inputMint = String(MintA)
    /\ pool.TokenMintA = MintA
    /\ LET other == BuildSwapInstructions(pool, UserAddr, String(MintB), args.amountIn,
                                          OneInt, args.rpc.a, args.rpc.b).val[1]
       IN  /\ other.Data[42] # ret.val[1].Data[42]
           /\ other.Accounts[12] # ret.val[1].Accounts[12]
           /\ other.Accounts[8] = ret.val[1].Accounts[8]

-----------------------------------------------------------------------------
(* SpecSwap: the swap computation on a pool: one swap step                 *)
(* (whirlpoolSwapStepCompute, with the target price whirlpoolSwapCompute   *)
(* gives it) or the whole computation (whirlpoolSwapCompute), for a signed *)
(* amount: positive for an exact input, negative for an exact output.      *)

SwapPools ==
    { [WhirlpoolPool EXCEPT !.Liquidity = l, !.SqrtPrice = sp, !.TickSpacing = 64,
                            !.FeeRate = fr, !.TokenMintA = MintA, !.TokenMintB = MintB,
                            !.PoolId = PoolAddr] :
        l \in {ZeroInt, OneInt, ZNat(10^6), ZMul(ZNat(10^6), ZNat(10^6))},
        sp \in {ZLsh(OneInt, U64Resolution), ZLsh(ZNat(3), U64Resolution - 1)},
        fr \in {0, 3000, 65535} }

SwapAmounts ==
    {OneInt, ZNat(1000), ZNat(1001), ZNat(2000), ZMul(ZNat(6), ZNat(10^9)),
     ZNeg(OneInt), ZNeg(ZNat(1000)), ZNeg(ZMul(ZNat(6), ZNat(10^9)))}

InitSwap ==
    /\ pool \in SwapPools
    /\ args = [none |-> TRUE]
    /\ call = "none"
    /\ ret = NoRet

SwapStepCall ==
    /\ call = "none"
    /\ \E amountRemaining \in SwapAmounts, zeroForOne \in BOOLEAN :
        \E r \in {whirlpoolSwapStepCompute(
                       pool.SqrtPrice, targetPriceOf(pool.SqrtPrice, zeroForOne),
                       pool.Liquidity, amountRemaining, pool.FeeRate, zeroForOne)} :
            /\ call' = "whirlpoolSwapStepCompute"
            /\ args' = [amount |-> amountRemaining, zeroForOne |-> zeroForOne]
            /\ ret' = IF IsPanic(r) THEN [kind |-> "panic", msg |-> r.panic]
                      ELSE [kind |-> "return", step |-> r, err |-> r.err]
            /\ UNCHANGED pool

SwapComputeCall ==
    /\ call = "none"
    /\ \E amountSpecified \in SwapAmounts, zeroForOne \in BOOLEAN :
        \E r \in {whirlpoolSwapCompute(pool, pool.TickCurrentIndex, zeroForOne,
                                       amountSpecified, pool.FeeRate, 0)} :
            /\ call' = "whirlpoolSwapCompute"
            /\ args' = [amount |-> amountSpecified, zeroForOne |-> zeroForOne]
            /\ ret' = IF IsPanic(r) THEN [kind |-> "panic", msg |-> r.panic]
                      ELSE [kind |-> "return", val |-> r.val, err |-> r.err]
            /\ UNCHANGED pool

NextSwap == SwapStepCall \/ SwapComputeCall

SpecSwap == InitSwap /\ [][NextSwap]_vars

\* an exact-input swap step that ran the step computation
ExactInputStep ==
    /\ call = "whirlpoolSwapStepCompute"
    /\ ret.kind = "return"
    /\ ret.err = Nil
    /\ ZIsPositive(args.amount)

\* C13: for every exact-input swap step the fee is at most the fee rate
\* times the gross input, fee * 1,000,000 <= feeRate * grossInput, whether
\* the step reaches its target price or not; the gross input is taken to be
\* the whole amount offered to the step
C13_FeeBound ==
    ExactInputStep
        => ZCmp(ZMul(ret.step.feeAmount, ZNat(FEE_RATE_DENOMINATOR)),
                ZMul(ZNat(pool.FeeRate), args.amount)) <= 0

\* the exact-output step for the request of this state: the step
\* computation on the signed amount, solved from the output side
ExactOutputStep ==
    whirlpoolSwapStepComputePrecise(
        pool.SqrtPrice, targetPriceOf(pool.SqrtPrice, args.zeroForOne),
        pool.Liquidity, args.amount, pool.FeeRate, args.zeroForOne)

\* C14: given a negative amount, a request for that much of the output
\* token, the swap computation solves the price from the output side and
\* returns the input amount plus the fee needed to obtain that output; it
\* does not treat the request as an exact input of the same size and does
\* not reject it
C14_ExactOutput ==
    (/\ call = "whirlpoolSwapCompute"
     /\ ZIsNegative(args.amount)
     /\ ~ZIsZero(pool.Liquidity)
     /\ ~IsPanic(ExactOutputStep)
     /\ ~ZIsZero(ZAdd(ExactOutputStep.amountIn, ExactOutputStep.feeAmount)))
        => /\ ret.kind = "return"
           /\ ret.err = Nil
           /\ ret.val = ZAdd(ExactOutputStep.amountIn, ExactOutputStep.feeAmount)

\* the output of the liquidity between the current price and the price the
\* step moved to, rounded down
ExactAmountOut ==
    IF args.zeroForOne
    THEN whirlpoolGetTokenAmountBFromLiquidity(
             ret.step.sqrtPriceNext, pool.SqrtPrice, pool.Liquidity, FALSE)
    ELSE whirlpoolGetTokenAmountAFromLiquidity(
             pool.SqrtPrice, ret.step.sqrtPriceNext, pool.Liquidity, FALSE)

\* C22: the swap step reports exact amounts: its amount out is the token B
\* amount (A into B) or the token A amount (B into A) of the liquidity
\* between the current price and the next price, rounded down, with no
\* safety margin taken off and no 1 put in the place of a zero
C22_ExactAmounts ==
    ExactInputStep => ret.step.amountOut = ExactAmountOut

\* the step whirlpoolSwapCompute has made
StepOfCompute ==
    whirlpoolSwapStepCompute(
        pool.SqrtPrice, targetPriceOf(pool.SqrtPrice, args.zeroForOne), pool.Liquidity,
        args.amount, pool.FeeRate, args.zeroForOne)

PriceLimitOf(zeroForOne) ==
    IF zeroForOne THEN ZAdd(MIN_SQRT_PRICE_X64, OneInt) ELSE ZSub(MAX_SQRT_PRICE_X64, OneInt)

\* C23: a successful exact-input swap computation has stopped with nothing
\* of the input remaining (the amount in plus the fee is the amount
\* specified) or with the price at the price limit, MIN_SQRT_PRICE + 1 for A
\* into B and MAX_SQRT_PRICE - 1 for B into A; it never returns leaving part
\* of the input unconsumed at a price short of the limit
C23_StopsAtZeroOrLimit ==
    (call = "whirlpoolSwapCompute" /\ ret.kind = "return" /\ ret.err = Nil
        /\ ZIsPositive(args.amount))
        => \/ ZAdd(StepOfCompute.amountIn, StepOfCompute.feeAmount) = args.amount
           \/ StepOfCompute.sqrtPriceNext = PriceLimitOf(args.zeroForOne)

\* C29: the input is conserved in an exact-input swap step: for every pool
\* with liquidity > 0, every fee rate of the pool (0 to 65535 parts per
\* million) and every positive amount, the amount in and the fee of the
\* step are not negative and amountIn + feeAmount is at most the amount
\* specified, and equal to it when the target price is not reached
C29_InputConserved ==
    (ExactInputStep /\ ZIsPositive(pool.Liquidity))
        => LET taken == ZAdd(ret.step.amountIn, ret.step.feeAmount)
           IN  /\ ~ZIsNegative(ret.step.amountIn)
               /\ ~ZIsNegative(ret.step.feeAmount)
               /\ ZCmp(taken, args.amount) <= 0
               /\ ret.step.sqrtPriceNext # targetPriceOf(pool.SqrtPrice, args.zeroForOne)
                     => taken = args.amount

\* a step that reaches its target at the greatest fee rate and leaves part
\* of the amount unused
C29_Witness ==
    /\ ExactInputStep
    /\ pool.FeeRate = 65535
    /\ pool.Liquidity = ZMul(ZNat(10^6), ZNat(10^6))
    /\ args.amount = ZMul(ZNat(6), ZNat(10^9))
    /\ ret.step.sqrtPriceNext = targetPriceOf(pool.SqrtPrice, args.zeroForOne)
    /\ ZIsPositive(ret.step.feeAmount)
    /\ ZCmp(ZAdd(ret.step.amountIn, ret.step.feeAmount), args.amount) < 0

-----------------------------------------------------------------------------
(* SpecAddress: the derivation of the tick array and oracle addresses of a *)
(* pool.  Init draws the pool's address, current tick and tick spacing;    *)
(* the derivations can be called again and again.                          *)

MAX_TICK == 443636

MIN_TICK == 0 - MAX_TICK

\* ticks around the window bounds of tick spacings 1 (88 ticks a window)
\* and 64 (5632 ticks a window), and the least and the greatest tick
AddressTicks ==
    {MIN_TICK, 0 - 5633, 0 - 5632, 0 - 89, 0 - 88, 0 - 1, 0, 63, 87, 88, 5567, 5568,
     5631, 5632, MAX_TICK}

AddressSpacings == {0, 1, 64}

AddressPools ==
    { [WhirlpoolPool EXCEPT !.PoolId = id, !.TickCurrentIndex = t, !.TickSpacing = ts] :
        id \in {PoolAddr, Key(6)}, t \in AddressTicks, ts \in AddressSpacings }

StartTickIndexes == {0 - 5632, 0 - 88, 0, 88, 5632, 56320}

InitAddress ==
    /\ pool \in AddressPools
    /\ args = [none |-> TRUE]
    /\ call = "none"
    /\ ret = NoRet

DeriveMultipleCall ==
    \E aToB \in BOOLEAN :
        \E r \in {DeriveMultipleWhirlpoolTickArrayPDAs(
                       pool.PoolId, pool.TickCurrentIndex, pool.TickSpacing, aToB)} :
            /\ call' = "DeriveMultipleWhirlpoolTickArrayPDAs"
            /\ args' = [aToB |-> aToB]
            /\ ret' = IF IsPanic(r) THEN [kind |-> "panic", msg |-> r.panic]
                      ELSE [kind |-> "return", val |-> r.val]
            /\ UNCHANGED pool

DeriveTickArrayCall ==
    \E startTickIndex \in StartTickIndexes :
        /\ call' = "DeriveWhirlpoolTickArrayPDA"
        /\ args' = [startTickIndex |-> startTickIndex]
        /\ ret' = [kind |-> "return",
                   val |-> DeriveWhirlpoolTickArrayPDA(pool.PoolId, startTickIndex)]
        /\ UNCHANGED pool

DeriveOracleCall ==
    /\ call' = "DeriveWhirlpoolOraclePDA"
    /\ args' = [none |-> TRUE]
    /\ ret' = [kind |-> "return", val |-> DeriveWhirlpoolOraclePDA(pool.PoolId)]
    /\ UNCHANGED pool

\* The start index of the window of the pool's current tick, computed the
\* three ways of the code: by the quote path, by the instruction path and
\* by the bitmap range.  A tick spacing of 0 divides by zero in the
\* remainder and is left out.
StartIndexCall ==
    /\ pool.TickSpacing > 0
    /\ call' = "getWhirlpoolTickArrayStartIndex"
    /\ args' = [tick |-> pool.TickCurrentIndex, tickSpacing |-> pool.TickSpacing]
    /\ ret' = [kind |-> "return",
               quote |-> getWhirlpoolTickArrayStartIndexByTick(
                             pool.TickCurrentIndex, pool.TickSpacing),
               instruction |-> floorDivision(pool.TickCurrentIndex,
                                             TICK_ARRAY_SIZE * pool.TickSpacing).val
                                   * TICK_ARRAY_SIZE * pool.TickSpacing,
               bitmap |-> getWhirlpoolTickArrayStartIndex(
                              pool.TickCurrentIndex, pool.TickSpacing)]
    /\ UNCHANGED pool

NextAddress ==
    DeriveMultipleCall \/ DeriveTickArrayCall \/ DeriveOracleCall \/ StartIndexCall

SpecAddress == InitAddress /\ [][NextAddress]_vars

\* the start of the window of ticksInArray ticks that holds tick
WindowBase(tick, ticksInArray) ==
    CHOOSE base \in (tick - ticksInArray + 1)..tick : base % ticksInArray = 0

\* C16: the three tick arrays of a swap are the windows at offsets
\* (0, -1, -2) from the window holding the current tick when trading A into
\* B, at offsets (0, +1, +2) when trading B into A, and at offsets
\* (+1, +2, +3) when trading B into A with currentTick + tickSpacing at or
\* beyond the end of that window; offsets count windows of tickSpacing * 88
\* ticks, and the three come in that order
C16_TickArrayTriple ==
    (call = "DeriveMultipleWhirlpoolTickArrayPDAs" /\ pool.TickSpacing > 0)
        => LET ticksInArray == pool.TickSpacing * 88
               base    == WindowBase(pool.TickCurrentIndex, ticksInArray)
               shifted == pool.TickCurrentIndex + pool.TickSpacing >= base + ticksInArray
               offsets == IF args.aToB THEN <<0, 0 - 1, 0 - 2>>
                          ELSE IF shifted THEN <<1, 2, 3>> ELSE <<0, 1, 2>>
           IN  /\ ret.kind = "return"
               /\ ret.val = [i \in 1..3 |->
                                DeriveWhirlpoolTickArrayPDA(
                                    pool.PoolId, base + offsets[i] * ticksInArray)]

\* trading B into A from a negative tick in the last tickSpacing ticks of
\* its window: the shifted triple
C16_Witness ==
    /\ call = "DeriveMultipleWhirlpoolTickArrayPDAs"
    /\ ~args.aToB
    /\ pool.TickCurrentIndex = 0 - 1
    /\ pool.TickSpacing = 64
    /\ ret.kind = "return"
    /\ ret.val[1] = DeriveWhirlpoolTickArrayPDA(pool.PoolId, 0)
    /\ ret.val[3] = DeriveWhirlpoolTickArrayPDA(pool.PoolId, 11264)

\* C25: for every current tick from MIN_TICK to MAX_TICK, the negative ones
\* included, and every tick spacing > 0, the base start index that
\* DeriveMultipleWhirlpoolTickArrayPDAs computes by floor division is a
\* multiple of tickSpacing * 88 and base <= currentTick < base +
\* tickSpacing * 88; every start index of the triple is a multiple of
\* tickSpacing * 88 as well
C25_BaseWindow ==
    (call = "DeriveMultipleWhirlpoolTickArrayPDAs" /\ pool.TickSpacing > 0)
        => LET tick         == pool.TickCurrentIndex
               ticksInArray == pool.TickSpacing * 88
               base         == floorDivision(tick, ticksInArray).val * ticksInArray
           IN  /\ base % ticksInArray = 0
               /\ base <= tick /\ tick < base + ticksInArray
               /\ ret.kind = "return"
               /\ \E k \in {0, 1} :
                     ret.val[1] = DeriveWhirlpoolTickArrayPDA(
                                      pool.PoolId, base + k * ticksInArray)
               /\ \A i \in 1..3 :
                     \E n \in 0 - 5100 .. 5100 :
                        /\ n * ticksInArray \in (tick - 4 * ticksInArray)..(tick + 4 * ticksInArray)
                        /\ ret.val[i] = DeriveWhirlpoolTickArrayPDA(
                                            pool.PoolId, n * ticksInArray)

\* a negative tick on a window bound: the base is the tick itself
C25_Witness ==
    /\ call = "DeriveMultipleWhirlpoolTickArrayPDAs"
    /\ args.aToB
    /\ pool.TickCurrentIndex = 0 - 5632
    /\ pool.TickSpacing = 64
    /\ ret.kind = "return"
    /\ ret.val[1] = DeriveWhirlpoolTickArrayPDA(pool.PoolId, 0 - 5632)
    /\ ret.val[3] = DeriveWhirlpoolTickArrayPDA(pool.PoolId, 0 - 16896)

\* C17: the derived addresses are deterministic and seed-injective: a
\* derivation called again with the same inputs returns the same address;
\* the address is made of the fixed label, the pool's address, the decimal
\* encoding of the start tick index and the program id, and of nothing
\* else; two different start tick indexes of the same pool have different
\* decimal encodings and different addresses
C17_AddressDerivation ==
    [][/\ (call' = call /\ args' = args) => ret' = ret
       /\ call' = "DeriveWhirlpoolOraclePDA" =>
              ret'.val = [pda |-> [seeds |-> <<"oracle", pool.PoolId>>,
                                   program |-> ORCA_WHIRLPOOL_PROGRAM_ID]]
       /\ call' = "DeriveWhirlpoolTickArrayPDA" =>
              /\ ret'.val.pda.program = ORCA_WHIRLPOOL_PROGRAM_ID
              /\ ret'.val.pda.seeds[1] = "tick_array"
              /\ ret'.val.pda.seeds[2] = pool.PoolId
              /\ Len(ret'.val.pda.seeds) = 3
              /\ \A other \in StartTickIndexes \ {args'.startTickIndex} :
                    /\ Sprintf_d(other) # ret'.val.pda.seeds[3]
                    /\ DeriveWhirlpoolTickArrayPDA(pool.PoolId, other) # ret'.val]_vars

\* the address of the tick array at -5632, whose encoding differs from
\* that of 5632 by the sign alone
C17_Witness ==
    /\ call = "DeriveWhirlpoolTickArrayPDA"
    /\ args.startTickIndex = 0 - 5632
    /\ ret.val.pda.seeds[3] = <<"-", "5", "6", "3", "2">>

\* C30: the three computations of the start index of a tick array agree:
\* for every tick from MIN_TICK to MAX_TICK, the negative ticks that are not
\* multiples of the window size included, and every tickSpacing > 0,
\* getWhirlpoolTickArrayStartIndexByTick (the quote path),
\* floorDivision(tick, 88 * tickSpacing) * 88 * tickSpacing (the instruction
\* path) and getWhirlpoolTickArrayStartIndex (tick - tick % window, the
\* bitmap range) return the same start index
C30_StartIndexesAgree ==
    call = "getWhirlpoolTickArrayStartIndex"
        => /\ ret.quote = ret.instruction
           /\ ret.instruction = ret.bitmap

\* the two flooring computations agree on every tick
FlooringIndexesAgree ==
    call = "getWhirlpoolTickArrayStartIndex" => ret.quote = ret.instruction

\* the remainder computation agrees with them from tick 0 up and on the
\* multiples of the window size
RemainderIndexAgrees ==
    (/\ call = "getWhirlpoolTickArrayStartIndex"
     /\ \/ args.tick >= 0
        \/ args.tick % (TICK_ARRAY_SIZE * args.tickSpacing) = 0)
        => ret.bitmap = ret.quote

-----------------------------------------------------------------------------
(* SpecRouter: the router's choice among the pools it discovered.  Init     *)
(* draws the discovered pools, in the order of their discovery, each with  *)
(* the answer its Quote gives to the request.                              *)

MaxDiscovered == 3

\* the answers of a pool's Quote: an amount, or an error and no amount
RouterQuotes ==
    { [val |-> ZNat(950), err |-> Nil], [val |-> ZNat(980), err |-> Nil],
      [val |-> ZNat(1000), err |-> Nil],
      [val |-> NilInt, err |-> ZeroLiquidity], [val |-> NilInt, err |-> DegenerateQuote] }

\* the i-th discovered pool carries the address Key(10 + i)
DiscoveredPools ==
    { [i \in 1..n |-> [PoolId |-> Key(10 + i), quote |-> qs[i]]] :
        n \in 0..MaxDiscovered, qs \in [1..MaxDiscovered -> RouterQuotes] }

NoBest == [found |-> FALSE]

\* A failed quote discards the choice made so far.
betterQuoteOrNone(best, candidate) ==
    IF candidate.quote.err # Nil THEN [found |-> FALSE]
    ELSE IF ~best.found \/ ZCmp(candidate.quote.val, best.amountOut) > 0
    THEN [found |-> TRUE, pool |-> candidate, amountOut |-> candidate.quote.val]
    ELSE best

\* the candidate replaces the best pool so far when it quotes more or equal
betterQuoteOrEqual(best, candidate) ==
    IF candidate.quote.err # Nil THEN best
    ELSE IF ~best.found \/ ZCmp(candidate.quote.val, best.amountOut) >= 0
    THEN [found |-> TRUE, pool |-> candidate, amountOut |-> candidate.quote.val]
    ELSE best

\* the best pool after one more pool has been quoted: a pool whose quote
\* fails is skipped, and a pool replaces the best so far when it quotes more
betterQuote(best, candidate) ==
    IF candidate.quote.err # Nil THEN best
    ELSE IF ~best.found \/ ZCmp(candidate.quote.val, best.amountOut) > 0
    THEN [found |-> TRUE, pool |-> candidate, amountOut |-> candidate.quote.val]
    ELSE best

RECURSIVE getBestPoolFrom(_, _, _)
getBestPoolFrom(discovered, i, best) ==
    IF i > Len(discovered) THEN best
    ELSE getBestPoolFrom(discovered, i + 1, betterQuote(best, discovered[i]))

\* SimpleRouter.GetBestPool on the pools discovered for the pair
GetBestPool(discovered) ==
    LET best == getBestPoolFrom(discovered, 1, NoBest)
    IN  IF ~best.found
        THEN [found |-> FALSE, amountOut |-> ZeroInt, err |-> <<"no route found">>]
        ELSE [found |-> TRUE, pool |-> best.pool, amountOut |-> best.amountOut,
              err |-> Nil]

\* the discovery step's failure
QueryFailed == <<"connection refused">>

InitRouter ==
    /\ pool = WhirlpoolPool
    /\ args \in { [discovered |-> d, err |-> Nil] : d \in DiscoveredPools }
                \cup { [discovered |-> <<>>, err |-> QueryFailed] }
    /\ call = "QueryAllPools"
    /\ ret = NoRet

GetBestPoolCall ==
    /\ call = "QueryAllPools"
    /\ call' = "GetBestPool"
    /\ ret' = IF args.err # Nil
              THEN [found |-> FALSE, amountOut |-> ZeroInt,
                    err |-> Errorf("failed to query pools", args.err)]
              ELSE GetBestPool(args.discovered)
    /\ UNCHANGED <<pool, args>>

NextRouter == GetBestPoolCall

SpecRouter == InitRouter /\ [][NextRouter]_vars

\* the places, in the order of discovery, of the pools whose quote succeeded
Eligible(discovered) == { i \in 1..Len(discovered) : discovered[i].quote.err = Nil }

\* C20: GetBestPool returns the pool with the greatest quoted output among
\* the discovered pools, together with that output; when several pools
\* quote the greatest output it returns the one discovered first; of two
\* pools quoting 950 and 980 it returns the second and 980
C20_BestPool ==
    (call = "GetBestPool" /\ ret.err = Nil)
        => LET d == args.discovered
           IN  /\ \E i \in Eligible(d) :
                     /\ ret.pool = d[i]
                     /\ ret.amountOut = d[i].quote.val
                     /\ \A j \in Eligible(d) :
                           /\ ZCmp(d[j].quote.val, ret.amountOut) <= 0
                           /\ j < i => ZCmp(d[j].quote.val, ret.amountOut) < 0
               /\ (Len(d) = 2 /\ d[1].quote.val = ZNat(950) /\ d[2].quote.val = ZNat(980))
                     => (ret.pool.PoolId = Key(12) /\ ret.amountOut = ZNat(980))

\* the first and the third of three pools quote 980, the second 950: the
\* first is returned
C20_Witness ==
    /\ call = "GetBestPool"
    /\ Len(args.discovered) = 3
    /\ args.discovered[1].quote.val = ZNat(980)
    /\ args.discovered[2].quote.val = ZNat(950)
    /\ args.discovered[3].quote.val = ZNat(980)
    /\ ret.err = Nil
    /\ ret.pool.PoolId = Key(11)
    /\ ret.amountOut = ZNat(980)

\* C21: in GetBestPool a pool whose quote fails with a validation error
\* (zero liquidity, zero price) is left out of the selection and does not
\* fail the call as long as another pool quotes successfully; the call
\* fails only if every pool is ineligible or the discovery itself failed
C21_RouterResilience ==
    call = "GetBestPool"
        => LET d == args.discovered
           IN  /\ ret.err # Nil <=> (args.err # Nil \/ Eligible(d) = {})
               /\ ret.err = Nil => \E i \in Eligible(d) : ret.pool = d[i]

\* the first discovered pool has no liquidity, the second quotes 950: the
\* second is returned
C21_Witness ==
    /\ call = "GetBestPool"
    /\ Len(args.discovered) = 2
    /\ args.discovered[1].quote.err = ZeroLiquidity
    /\ args.discovered[2].quote.val = ZNat(950)
    /\ ret.err = Nil
    /\ ret.pool.PoolId = Key(12)
    /\ ret.amountOut = ZNat(950)

-----------------------------------------------------------------------------
(* SpecRetry: the two retry loops, Quote's around the swap computation and *)
(* checkAccountExists' around the account fetch, each on the outcomes of   *)
(* the calls it makes.  Init draws the outcomes of the successive calls.   *)

\* outcomes of ComputeWhirlpoolAmountOutFormat: an amount, or an error
ComputeOutcomes ==
    { [val |-> ZNeg(ZNat(896)), err |-> Nil] }
        \cup { [val |-> NilInt, err |-> Errorf("failed to compute Whirlpool swap amount", <<text>>)] :
                 text \in {"calculated amount is zero", "arithmetic overflow",
                           "arithmetic underflow", "division by zero", "request timeout"} }

Timeout == <<"request timeout">>

\* answers of solClient.GetAccountInfo: the error, Nil when the account was
\* fetched
RpcAnswers == {Nil, NotFound, RateLimited, Timeout, Refused}

RetryPool ==
    [WhirlpoolPool EXCEPT !.Liquidity = ZMul(ZNat(10^6), ZNat(10^6)),
                          !.SqrtPrice = ZLsh(OneInt, U64Resolution),
                          !.TickSpacing = 64, !.FeeRate = 3000,
                          !.TokenMintA = MintA, !.TokenMintB = MintB,
                          !.TokenVaultA = Key(3), !.TokenVaultB = Key(4),
                          !.PoolId = PoolAddr]

InitRetry ==
    /\ pool = RetryPool
    /\ args \in { [results |-> r] : r \in [1..3 -> ComputeOutcomes] }
                \cup { [rpc |-> a] : a \in [1..4 -> RpcAnswers] }
    /\ call = "none"
    /\ ret = NoRet

QuoteLoopCall ==
    /\ call = "none"
    /\ "results" \in DOMAIN args
    /\ call' = "Quote"
    /\ ret' = [kind |-> "return"] @@ QuoteLoop(pool, String(MintA), args.results, 0, 0, <<>>)
    /\ UNCHANGED <<pool, args>>

CheckAccountExistsCall ==
    /\ call = "none"
    /\ "rpc" \in DOMAIN args
    /\ call' = "checkAccountExists"
    /\ ret' = [kind |-> "return"] @@ checkAccountExists(args.rpc)
    /\ UNCHANGED <<pool, args>>

NextRetry == QuoteLoopCall \/ CheckAccountExistsCall

SpecRetry == InitRetry /\ [][NextRetry]_vars

FetchesOf(rpc) ==
    CHOOSE n \in 1..4 :
        /\ n = 4 \/ rpc[n] \notin {RateLimited, Timeout}
        /\ \A k \in 1..(n - 1) : rpc[k] \in {RateLimited, Timeout}

\* C27: checkAccountExists is a bounded retry with exponential backoff that
\* takes account-not-found for a plain negative answer: it fetches at most
\* 4 times; it sleeps 100 ms * 2^attempt (100, 200, 400) only after a
\* rate-limit or timeout error and only while attempts remain; on the first
\* account-not-found answer it returns (false, no error) without another
\* fetch; on the first success it returns (true, no error); otherwise it
\* returns an error; and it always returns
C27_BoundedRetry ==
    call = "checkAccountExists"
        => LET n    == FetchesOf(args.rpc)
               last == args.rpc[n]
           IN  /\ ret.kind = "return"
               /\ ret.calls = n
               /\ ret.calls <= 4
               /\ ret.slept = [k \in 1..(n - 1) |-> 100 * 2^(k - 1)]
               /\ last = Nil => (ret.exists /\ ret.err = Nil)
               /\ last = NotFound => (~ret.exists /\ ret.err = Nil)
               /\ last \notin {Nil, NotFound} => (~ret.exists /\ ret.err # Nil)

\* three rate-limited fetches and a fourth that finds no account: three
\* sleeps, and the answer is no
C27_Witness ==
    /\ call = "checkAccountExists"
    /\ args.rpc = <<RateLimited, Timeout, RateLimited, NotFound>>
    /\ ret.calls = 4
    /\ ret.slept = <<100, 200, 400>>
    /\ ~ret.exists
    /\ ret.err = Nil

-----------------------------------------------------------------------------
(* SpecCodec: Decode on a fresh struct.  Init draws the account buffer: a  *)
(* length, a capacity (base64 decoding allocates up to Slack bytes more    *)
(* than it fills) and a byte pattern.                                      *)

MaxLen == 655

Slack == 2

MaxSeed == 2

\* byte i of pattern seed: neighbouring positions and fields differ
PatternByte(seed, i) == (37 * i + 11 * seed + (i \div 7)) % 256

Buffers ==
    { [data |-> [i \in 1..n |-> PatternByte(seed, i)], cap |-> n + extra] :
          n \in 0..MaxLen, extra \in {0, Slack}, seed \in 1..MaxSeed }

InitCodec ==
    /\ pool = WhirlpoolPool
    /\ args \in Buffers
    /\ call = "none"
    /\ ret = NoRet

DecodeCall ==
    /\ call = "none"
    /\ call' = "Decode"
    /\ LET r == Decode(pool, args)
       IN  /\ pool' = r.pool
           /\ ret' = IF r.kind = "return"
                     THEN [kind |-> "return", err |-> r.err, reads |-> r.reads]
                     ELSE [kind |-> "panic", msg |-> r.msg, reads |-> r.reads]
    /\ UNCHANGED args

NextCodec == DecodeCall

SpecCodec == InitCodec /\ [][NextCodec]_vars

RECURSIVE SumWidths(_)
SumWidths(fs) == IF fs = <<>> THEN 0 ELSE Head(fs).width + SumWidths(Tail(fs))

OffsetFields ==
    {"TokenMintA", "TokenMintB", "TickSpacing", "FeeRate", "SqrtPrice",
     "TickCurrentIndex"}

LayoutOf(name) == CHOOSE f \in {Layout[k] : k \in 1..Len(Layout)} : f.name = name

\* C1: for each of the six fields Offset accepts, Offset(field) is the
\* absolute position at which Decode read the field, and the bytes of the
\* buffer at that offset, converted by hand, are the decoded struct field.
C1_OffsetRoundTrip ==
    (call = "Decode" /\ ret.kind = "return") =>
        \A name \in OffsetFields :
            LET f == LayoutOf(name)
            IN  /\ \E k \in 1..Len(ret.reads) :
                       /\ ret.reads[k].name = name
                       /\ ret.reads[k].at = Offset(name)
                /\ Offset(name) + f.width <= args.cap
                /\ pool[name] = FromBytes(f.kind, SliceBytes(args, Offset(name), f.width))

C1_Witness ==
    /\ call = "Decode" /\ ret.kind = "return"
    /\ Len(args.data) = WHIRLPOOL_SIZE
    /\ pool.TokenMintB = SliceBytes(args, 181, 32)
    /\ pool.TokenMintB # pool.TokenMintA
    /\ pool.TickSpacing = args.data[42] + 256 * args.data[43]

\* C2 (as claimed): Decode of a buffer shorter than 653 bytes returns the
\* buffer-too-short error and leaves every field of the struct untouched.
C2_ShortBufferRejected ==
    (call = "Decode" /\ Len(args.data) < WHIRLPOOL_SIZE) =>
        /\ ret.kind = "return"
        /\ ret.err = "BufferTooShort"
        /\ pool = WhirlpoolPool

\* C3: Span() is 653, which is the 8-byte discriminator plus the bytes
\* Decode consumes reading the fields in the order and widths of the
\* account layout; Decode of a 653-byte buffer returns without reading at
\* or past byte 653.
C3_SpanMatchesDecode ==
    /\ Span = 653
    /\ Span = 8 + SumWidths(Layout)
    /\ [k \in 1..18 |-> Layout[k].width]
           = <<32, 1, 2, 2, 2, 2, 16, 16, 4, 8, 8, 32, 32, 16, 32, 32, 16, 8>>
    /\ \A i \in 1..3 : SumWidths(RewardLayout(i)) = 128
    /\ (call = "Decode" /\ Len(args.data) = 653) =>
           /\ ret.kind = "return"
           /\ Len(ret.reads) = Len(Layout)
           /\ \A k \in 1..Len(ret.reads) :
                  /\ ret.reads[k].at >= 8
                  /\ ret.reads[k].at + ret.reads[k].width <= 653
                  /\ ret.reads[k].at = 8 + SumWidths(SubSeq(Layout, 1, k - 1))

C3_Witness ==
    /\ call = "Decode" /\ Len(args.data) = 653 /\ args.cap = 653
    /\ ret.kind = "return"
    /\ ret.reads[Len(ret.reads)].at + ret.reads[Len(ret.reads)].width = 653

-----------------------------------------------------------------------------
(* SpecFetch: FetchPoolsByPair on the accounts the two searches return.    *)
(* Init draws the answer of each search: an error, or a list of accounts,  *)
(* each with its address and its data.                                     *)

MaxFetched == 2

\* account data: whole (653 bytes), cut short, and empty
FetchBuffers ==
    { [data |-> [i \in 1..n |-> PatternByte(1, i)], cap |-> n] : n \in {0, 100, WHIRLPOOL_SIZE} }

\* the answers of getWhirlpoolAccountsByTokenPair; the k-th account of a
\* search has the address Key(first + k)
SearchAnswers(first) ==
    { [err |-> Nil,
       accounts |-> [k \in 1..n |-> [Pubkey |-> Key(first + k), data |-> bufs[k]]]] :
          n \in 0..MaxFetched, bufs \in [1..MaxFetched -> FetchBuffers] }
        \cup { [err |-> <<"failed to get pools", "connection refused">>, accounts |-> <<>>] }

\* the loop over the accounts: res is the list built so far; a panic of
\* Decode ends the call
RECURSIVE decodeAccounts(_, _, _)
decodeAccounts(accounts, i, res) ==
    IF i > Len(accounts) THEN [kind |-> "return", val |-> res, err |-> Nil]
    ELSE LET v      == accounts[i]
             layout == Decode(WhirlpoolPool, v.data)
         IN  IF layout.kind = "panic" THEN [kind |-> "panic", msg |-> layout.msg]
             ELSE IF layout.err # "nil" THEN decodeAccounts(accounts, i + 1, res)
             ELSE decodeAccounts(accounts, i + 1,
                                 Append(res, [layout.pool EXCEPT !.PoolId = v.Pubkey]))

\* OrcaWhirlpoolProtocol.FetchPoolsByPair on the answers of its two searches
fetchPoolsByPair(base, quote) ==
    IF base.err # Nil
    THEN [kind |-> "return", val |-> <<>>,
          err |-> Errorf("failed to fetch pools with base token", base.err)]
    ELSE IF quote.err # Nil
    THEN [kind |-> "return", val |-> <<>>,
          err |-> Errorf("failed to fetch pools with base token", quote.err)]
    ELSE decodeAccounts(base.accounts \o quote.accounts, 1, <<>>)

InitFetch ==
    /\ pool = WhirlpoolPool
    /\ args \in [base : SearchAnswers(20), quote : SearchAnswers(30)]
    /\ call = "none"
    /\ ret = NoRet

FetchPoolsByPairCall ==
    /\ call = "none"
    /\ call' = "FetchPoolsByPair"
    /\ ret' = fetchPoolsByPair(args.base, args.quote)
    /\ UNCHANGED <<pool, args>>

NextFetch == FetchPoolsByPairCall

SpecFetch == InitFetch /\ [][NextFetch]_vars

WellFormed(account) == Len(account.data.data) = WHIRLPOOL_SIZE

\* C28: in FetchPoolsByPair a decode failure is fatal to its account alone:
\* when the data of a fetched account is malformed or too short, the
\* account is skipped, every other account of the batch (of both searches,
\* those of the base-to-quote search first) is decoded and returned with
\* its own address as PoolId, and the call succeeds
C28_DecodeFailureSkipped ==
    (call = "FetchPoolsByPair" /\ args.base.err = Nil /\ args.quote.err = Nil)
        => LET good == SelectSeq(args.base.accounts \o args.quote.accounts, WellFormed)
           IN  /\ ret.kind = "return"
               /\ ret.err = Nil
               /\ ret.val = [i \in 1..Len(good) |->
                                [Decode(WhirlpoolPool, good[i].data).pool
                                    EXCEPT !.PoolId = good[i].Pubkey]]

-----------------------------------------------------------------------------
(* SpecMath: the math library on its own.  Init draws three operands and   *)
(* the rounding flag; each action applies one function to them.            *)

MaxOperand == 3

MaxHalfUnits == 4

Q64 == ZLsh(OneInt, U64Resolution)

\* small operands, the 7 and the 100 of the worked examples, and the sqrt
\* prices 1.0, 1.5, 2.0, ... in Q64.64
MathValues ==
    {ZNat(n) : n \in 0..MaxOperand} \cup {ZNat(7), ZNat(100)}
        \cup {ZQuo(ZMul(ZNat(k), Q64), ZNat(2)) : k \in 2..MaxHalfUnits}

InitMath ==
    /\ pool = WhirlpoolPool
    /\ args \in [a : MathValues, b : MathValues, c : MathValues, roundUp : BOOLEAN]
    /\ call = "none"
    /\ ret = NoRet

MulDivFloor ==
    /\ call = "none"
    /\ call' = "whirlpoolMulDivFloor"
    /\ ret' = Outcome(whirlpoolMulDivFloor(args.a, args.b, args.c))
    /\ UNCHANGED <<pool, args>>

MulDivCeil ==
    /\ call = "none"
    /\ call' = "whirlpoolMulDivCeil"
    /\ ret' = Outcome(whirlpoolMulDivCeil(args.a, args.b, args.c))
    /\ UNCHANGED <<pool, args>>

GetTokenAmountA ==
    /\ call = "none"
    /\ call' = "whirlpoolGetTokenAmountAFromLiquidity"
    /\ ret' = Outcome(whirlpoolGetTokenAmountAFromLiquidity(
                          args.a, args.b, args.c, args.roundUp))
    /\ UNCHANGED <<pool, args>>

GetTokenAmountB ==
    /\ call = "none"
    /\ call' = "whirlpoolGetTokenAmountBFromLiquidity"
    /\ ret' = Outcome(whirlpoolGetTokenAmountBFromLiquidity(
                          args.a, args.b, args.c, args.roundUp))
    /\ UNCHANGED <<pool, args>>

\* the operands are the price, the liquidity and the amount; the flag is
\* the direction
GetNextSqrtPriceX64FromInput ==
    /\ call = "none"
    /\ call' = "whirlpoolGetNextSqrtPriceX64FromInput"
    /\ ret' = Outcome(whirlpoolGetNextSqrtPriceX64FromInput(
                          args.a, args.b, args.c, args.roundUp))
    /\ UNCHANGED <<pool, args>>

NextMath ==
    \/ MulDivFloor
    \/ MulDivCeil
    \/ GetTokenAmountA
    \/ GetTokenAmountB
    \/ GetNextSqrtPriceX64FromInput

SpecMath == InitMath /\ [][NextMath]_vars

-----------------------------------------------------------------------------
(* Rounding, stated by multiplication: q is the floor (the ceiling) of     *)
(* n/d, for n >= 0 and d > 0.                                              *)

IsFloorOf(q, n, d) ==
    /\ ~IsNilInt(q)
    /\ ZCmp(ZMul(q, d), n) <= 0
    /\ ZCmp(n, ZMul(ZAdd(q, OneInt), d)) < 0

IsCeilOf(q, n, d) ==
    /\ ~IsNilInt(q)
    /\ ZCmp(ZMul(q, d), n) >= 0
    /\ ZCmp(ZMul(ZSub(q, OneInt), d), n) < 0

ZMax(x, y) == IF ZCmp(x, y) >= 0 THEN x ELSE y

ZMin(x, y) == IF ZCmp(x, y) <= 0 THEN x ELSE y

\* C4: whirlpoolMulDivFloor(a, b, denom) is floor(a*b/denom) for
\* non-negative a, b and denom > 0 (7*3/2 gives 10), and for denom = 0 it
\* fails with the division-by-zero outcome, whatever a and b are.
C4_MulDivFloor ==
    /\ whirlpoolMulDivFloor(ZNat(7), ZNat(3), ZNat(2)) = ZNat(10)
    /\ call = "whirlpoolMulDivFloor" =>
           IF ZIsZero(args.c)
           THEN ret.kind = "panic" /\ ret.msg = "division by zero"
           ELSE ret.kind = "return"
                /\ IsFloorOf(ret.val, ZMul(args.a, args.b), args.c)

C4_Witness ==
    /\ call = "whirlpoolMulDivFloor"
    /\ args.a = ZNat(7) /\ args.b = ZNat(3) /\ args.c = ZNat(2)
    /\ ret = [kind |-> "return", val |-> ZNat(10)]

\* C5 (as claimed): whirlpoolMulDivCeil(a, b, denom) is ceil(a*b/denom) for
\* non-negative a, b and denom > 0 (7*3/2 gives 11), and for denom = 0 it
\* returns the integer zero rather than failing.
C5_MulDivCeil ==
    /\ whirlpoolMulDivCeil(ZNat(7), ZNat(3), ZNat(2)) = ZNat(11)
    /\ call = "whirlpoolMulDivCeil" =>
           /\ ret.kind = "return"
           /\ IF ZIsZero(args.c)
              THEN ret.val = ZeroInt
              ELSE IsCeilOf(ret.val, ZMul(args.a, args.b), args.c)

\* C6: whirlpoolGetTokenAmountAFromLiquidity, for positive price bounds in
\* either order and L >= 0, is the exact quotient
\* (L * 2^64) * (high - low) / (high * low) rounded once: down when roundUp
\* is false, up when it is true; (2^64, 2*2^64, 100, false) gives 50.
C6_TokenAmountA ==
    /\ whirlpoolGetTokenAmountAFromLiquidity(
           Q64, ZMul(ZNat(2), Q64), ZNat(100), FALSE) = ZNat(50)
    /\ (call = "whirlpoolGetTokenAmountAFromLiquidity"
            /\ ZIsPositive(args.a) /\ ZIsPositive(args.b)) =>
           LET low  == ZMin(args.a, args.b)
               high == ZMax(args.a, args.b)
               n    == ZMul(ZMul(args.c, Q64), ZSub(high, low))
               d    == ZMul(high, low)
           IN  /\ ret.kind = "return"
               /\ IF args.roundUp THEN IsCeilOf(ret.val, n, d)
                                  ELSE IsFloorOf(ret.val, n, d)
               /\ ret.val = whirlpoolGetTokenAmountAFromLiquidity(
                                args.b, args.a, args.c, args.roundUp)

C6_Witness ==
    /\ call = "whirlpoolGetTokenAmountAFromLiquidity"
    /\ args.a = ZMul(ZNat(2), Q64) /\ args.b = Q64
    /\ args.c = ZNat(100) /\ ~args.roundUp
    /\ ret = [kind |-> "return", val |-> ZNat(50)]

\* C7: whirlpoolGetTokenAmountBFromLiquidity, for positive price bounds in
\* either order and L >= 0, is L * (high - low) / 2^64 rounded down when
\* roundUp is false and up when it is true; (2^64, 2*2^64, 100, false)
\* gives 100.
C7_TokenAmountB ==
    /\ whirlpoolGetTokenAmountBFromLiquidity(
           Q64, ZMul(ZNat(2), Q64), ZNat(100), FALSE) = ZNat(100)
    /\ (call = "whirlpoolGetTokenAmountBFromLiquidity"
            /\ ZIsPositive(args.a) /\ ZIsPositive(args.b)) =>
           LET low  == ZMin(args.a, args.b)
               high == ZMax(args.a, args.b)
               n    == ZMul(args.c, ZSub(high, low))
           IN  /\ ret.kind = "return"
               /\ IF args.roundUp THEN IsCeilOf(ret.val, n, Q64)
                                  ELSE IsFloorOf(ret.val, n, Q64)
               /\ ret.val = whirlpoolGetTokenAmountBFromLiquidity(
                                args.b, args.a, args.c, args.roundUp)

\* an inexact case: 3 * (1.5 - 1.0) is 1.5, rounded up to 2
C7_Witness ==
    /\ call = "whirlpoolGetTokenAmountBFromLiquidity"
    /\ args.a = ZQuo(ZMul(ZNat(3), Q64), ZNat(2)) /\ args.b = Q64
    /\ args.c = ZNat(3) /\ args.roundUp
    /\ ret = [kind |-> "return", val |-> ZNat(2)]

\* C24: whirlpoolGetNextSqrtPriceX64FromInput rounds against the trader.
\* For a price P > 0, liquidity L > 0 and amount in > 0: with token A in the
\* result is at most P and is the ceiling of
\* (L * 2^64 * P) / (L * 2^64 + amount * P); with token B in the result is
\* at least P and is P + floor(amount * 2^64 / L); and the token amount of
\* the liquidity between P and the result, rounded up, is at most the amount
C24_NextPriceRounding ==
    (call = "whirlpoolGetNextSqrtPriceX64FromInput"
        /\ ZIsPositive(args.a) /\ ZIsPositive(args.b) /\ ZIsPositive(args.c))
        => LET P  == args.a
               L  == args.b
               LQ == ZMul(L, Q64)
           IN  /\ ret.kind = "return"
               /\ IF args.roundUp
                  THEN /\ ZCmp(ret.val, P) <= 0
                       /\ IsCeilOf(ret.val, ZMul(LQ, P), ZAdd(LQ, ZMul(args.c, P)))
                       /\ ZCmp(whirlpoolGetTokenAmountAFromLiquidity(ret.val, P, L, TRUE),
                               args.c) <= 0
                  ELSE /\ ZCmp(ret.val, P) >= 0
                       /\ IsFloorOf(ZSub(ret.val, P), ZMul(args.c, Q64), L)
                       /\ ZCmp(whirlpoolGetTokenAmountBFromLiquidity(P, ret.val, L, TRUE),
                               args.c) <= 0

\* token B in, an inexact case: from the price 1.5 with liquidity 7 and
\* 3 units in, the price moves up by floor(3 * 2^64 / 7)
C24_Witness ==
    /\ call = "whirlpoolGetNextSqrtPriceX64FromInput"
    /\ args.a = ZQuo(ZMul(ZNat(3), Q64), ZNat(2))
    /\ args.b = ZNat(7) /\ args.c = ZNat(3) /\ ~args.roundUp
    /\ ret.kind = "return"
    /\ ZCmp(ret.val, args.a) > 0
    /\ ZMul(ZSub(ret.val, args.a), ZNat(7)) # ZMul(ZNat(3), Q64)

=============================================================================
